---------------------------- MODULE Spec2Model ----------------------------
(***************************************************************************)
(* Instant-Karaoke backend (src/backend/app.py): the session-scoped        *)
(* chunked separation pipeline.                                            *)
(*                                                                         *)
(*   - split_audio_into_chunks          the Chunker (a pure function)      *)
(*   - upload_audio / yt_start_session  create-session and its worker      *)
(*     thread (process_session / process_stream)                           *)
(*   - cleanup_session_files, cleanup_old_sessions, cleanup_session        *)
(*     the sweep and delete-session                                        *)
(*   - status, get_audio_file           the readers                        *)
(*                                                                         *)
(* Every thread of the program is a process of the model; one action is    *)
(* one access to the shared state (the SESSIONS dict, the file system) or  *)
(* one blocking call of a collaborator, so every interleaving the          *)
(* interpreter can produce between two such accesses is a behaviour.       *)
(***************************************************************************)
EXTENDS Integers, Sequences, FiniteSets, TLC

(***************************************************************************)
(* Bounds of the model.                                                    *)
(***************************************************************************)
\* Longest PCM buffer handed to the Chunker in ChunkerSpec.
MaxAudioLen == 5
\* Largest sample rate (samples per second) drawn in ChunkerSpec.
MaxRate == 3
\* Largest chunk duration drawn in ChunkerSpec, in units of 1/DurDen second.
MaxDur == 4
\* Durations are rationals k/DurDen seconds, so that int(sample_rate *
\* chunk_duration) truncates.
DurDen == 2
\* Most windows a source (uploaded file or remote stream) holds.
MaxChunks == 2
\* The clock runs from 0 to MaxTime hours.
MaxTime == 2
\* Most windows handed to the Stitcher, and the longest of them, in
\* StitcherSpec.
MaxParts == 3
MaxWinLen == 4
\* Largest fade length of StitcherSpec: the sample rates are 50, 100, 150,
\* ..., 100 * MaxFadeLen + 50.
MaxFadeLen == 3

\* The session ids uuid4 may draw, and the stem names the separation
\* collaborator may return.
SessionIds == {"s1", "s2"}
Stems == {"other", "vocals"}
\* The order in which a result map of the collaborator is iterated.
StemOrder == <<"vocals", "other">>
\* The samples a PCM buffer is made of in ChunkerSpec.
Samples == {0, 1}

(***************************************************************************)
(* Program constants.                                                      *)
(***************************************************************************)
\* CHUNK_DURATION = 7.0 seconds.
CHUNK_DURATION == 7
\* cleanup_old_sessions: timedelta(hours=1); the clock counts hours.
Retention == 1
\* The sample rate of the uploaded files of the model (samples per second).
UploadRate == 1

(***************************************************************************)
(* Helpers.                                                                *)
(***************************************************************************)
Min(a, b) == IF a < b THEN a ELSE b

Max(a, b) == IF a > b THEN a ELSE b

Abs(x) == IF x < 0 THEN -x ELSE x

Range(f) == {f[k] : k \in DOMAIN f}

\* The elements of sequence q that are in set S, in q's order.
RECURSIVE Filter(_, _)
Filter(q, S) ==
    IF q = <<>> THEN <<>>
    ELSE IF Head(q) \in S THEN <<Head(q)>> \o Filter(Tail(q), S)
    ELSE Filter(Tail(q), S)

\* All sequences over S of length at most n.
SeqsUpTo(S, n) == UNION {[1..k -> S] : k \in 0..n}

(***************************************************************************)
(* The Chunker: split_audio_into_chunks.                                   *)
(***************************************************************************)
\* chunk_samples = int(sample_rate * chunk_duration); chunk_duration is
\* dur / DurDen seconds.
chunk_samples_of(sample_rate, dur) == (sample_rate * dur) \div DurDen

\* audio_data[i:i + chunk_samples], a Python slice: it stops at the end.
Slice(audio_data, i, j) == SubSeq(audio_data, i + 1, Min(j, Len(audio_data)))

KeepChunkNonEmpty(chunk, chunk_samples) == Len(chunk) > 0

\* if len(chunk) == chunk_samples
KeepChunk(chunk, chunk_samples) == Len(chunk) = chunk_samples

\* for i in range(0, len(audio_data), chunk_samples): ...
RECURSIVE chunk_loop(_, _, _, _)
chunk_loop(audio_data, chunk_samples, i, chunks) ==
    IF i >= Len(audio_data) THEN chunks
    ELSE LET chunk == Slice(audio_data, i, i + chunk_samples)
         IN  chunk_loop(audio_data, chunk_samples, i + chunk_samples,
                        IF KeepChunk(chunk, chunk_samples)
                        THEN Append(chunks, chunk) ELSE chunks)

\* range() raises ValueError for a zero step: ok = FALSE.
split_audio_into_chunks(audio_data, sample_rate, dur) ==
    LET chunk_samples == chunk_samples_of(sample_rate, dur)
    IN  IF chunk_samples = 0
        THEN [ok |-> FALSE, chunks |-> <<>>]
        ELSE [ok |-> TRUE,
              chunks |-> chunk_loop(audio_data, chunk_samples, 0, <<>>)]

(***************************************************************************)
(* The Stitcher: crossfade_concat. A window is one channel of int16        *)
(* samples. A float32 sample x is the integer x * FloatDen: the arithmetic *)
(* is that of the reals, exact for the gains of fade lengths up to 4.      *)
(***************************************************************************)
\* fade_ms=10.0, the argument of both calls of crossfade_concat.
FADE_MS == 10

\* The int16 range.
INT16_MIN == -32768
INT16_MAX == 32767

\* A sample is overlapped at most MaxParts - 1 times, each time with gains
\* that are quarters.
GainDen == 4
FloatDen == 32768 * GainDen ^ (MaxParts - 1)

\* round(a / d), halves to the even neighbour.
Round(a, d) ==
    LET q == a \div d
        r == a % d
    IN  IF 2 * r < d THEN q
        ELSE IF 2 * r > d THEN q + 1
        ELSE IF q % 2 = 0 THEN q ELSE q + 1

fade_len_rounded(sample_rate, fade_ms) ==
    Max(1, Round(sample_rate * fade_ms, 1000))

\* fade_len = max(1, int(sample_rate * (fade_ms / 1000.0)))
fade_len_of(sample_rate, fade_ms) ==
    Max(1, (sample_rate * fade_ms) \div 1000)

\* p.astype(np.float32) / 32768.0
ToFloat(p) == [k \in 1..Len(p) |-> p[k] * (FloatDen \div 32768)]

\* The gains at t = 0, 1/n, ..., (n-1)/n, which leave out t = 1 (to the
\* nearest quarter for fade_len 4).
fade_out_open(fade_len, k) ==
    <<<<4>>, <<4, 2>>, <<4, 3, 1>>, <<4, 3, 2, 1>>>>[fade_len][k]

\* fade_out = cos(t * pi / 2) ** 2 for t = np.linspace(0, 1, fade_len), in
\* quarters: 1; 1, 0; 1, 1/2, 0; 1, 3/4, 1/4, 0.
fade_out(fade_len, k) ==
    <<<<4>>, <<4, 0>>, <<4, 2, 0>>, <<4, 3, 1, 0>>>>[fade_len][k]

\* fade_in = sin(t * pi / 2) ** 2
fade_in(fade_len, k) == GainDen - fade_out(fade_len, k)

JoinNoOverlap(out, nxt, fade_len) == out \o nxt

\* A join that concatenates only what is strictly shorter than the fade.
JoinStrict(out, nxt, fade_len) ==
    IF fade_len > Len(out) \/ fade_len > Len(nxt)
    THEN out \o nxt
    ELSE LET keep == Len(out) - fade_len
             overlapped ==
                [k \in 1..fade_len |->
                    (out[keep + k] * fade_out(fade_len, k)
                        + nxt[k] * fade_in(fade_len, k)) \div GainDen]
         IN  SubSeq(out, 1, keep) \o overlapped
                \o SubSeq(nxt, fade_len + 1, Len(nxt))

\* One pass of the loop over float_parts[1:]: a plain concatenation when
\* fade_len >= len(out) or fade_len >= len(nxt), else
\* vstack([out[:-fade_len], overlapped, nxt[fade_len:]]).
Join(out, nxt, fade_len) ==
    IF fade_len >= Len(out) \/ fade_len >= Len(nxt)
    THEN out \o nxt
    ELSE LET keep == Len(out) - fade_len
             overlapped ==
                [k \in 1..fade_len |->
                    (out[keep + k] * fade_out(fade_len, k)
                        + nxt[k] * fade_in(fade_len, k)) \div GainDen]
         IN  SubSeq(out, 1, keep) \o overlapped
                \o SubSeq(nxt, fade_len + 1, Len(nxt))

\* Only the last of the remaining windows is joined.
join_loop_last_only(out, rest, fade_len) ==
    IF rest = <<>> THEN out
    ELSE Join(out, ToFloat(rest[Len(rest)]), fade_len)

\* for nxt in float_parts[1:]: ...
RECURSIVE join_loop(_, _, _)
join_loop(out, rest, fade_len) ==
    IF rest = <<>> THEN out
    ELSE join_loop(Join(out, ToFloat(Head(rest)), fade_len), Tail(rest),
                   fade_len)

\* np.clip(out, -1.0, 1.0)
Clip(x) == Max(-FloatDen, Min(FloatDen, x))

NoRescale(x) == x

\* (out * 32767.0).astype(np.int16): the product, truncated towards zero.
\* |x| = q * (FloatDen / 32768) + r, so that no product leaves 32 bits.
ToInt16(x) ==
    LET unit == FloatDen \div 32768
        q == Abs(x) \div unit
        r == Abs(x) % unit
        m == (q * 32767 + (r * 32767) \div unit) \div 32768
    IN  IF x < 0 THEN -m ELSE m

OneWindowConverted(parts) ==
    [k \in 1..Len(parts[1]) |-> ToInt16(Clip(ToFloat(parts[1])[k]))]

\* if len(parts) == 1: return parts[0]
OneWindow(parts) == parts[1]

crossfade_concat(parts, sample_rate, fade_ms) ==
    IF parts = <<>> THEN <<>>
    ELSE IF Len(parts) = 1 THEN OneWindow(parts)
    ELSE LET fade_len == fade_len_of(sample_rate, fade_ms)
             out == join_loop(ToFloat(parts[1]), Tail(parts), fade_len)
         IN  [k \in 1..Len(out) |-> ToInt16(Clip(out[k]))]

(***************************************************************************)
(* The pitch preview: pitch_shift_preview. A shift is k / SemiDen          *)
(* semitones, a time is k / DurDen seconds, a track is one channel of      *)
(* int16 samples.                                                          *)
(***************************************************************************)
\* The shifts are multiples of half a millionth of a semitone.
SemiDen == 2000000

\* int(x) of a quotient: towards zero.
TruncDiv(a, d) == IF a >= 0 THEN a \div d ELSE -((-a) \div d)

\* n0 = max(0, int(start_s * sr))
n0_of(start_s, sr) == Max(0, TruncDiv(start_s * sr, DurDen))

\* The end of the requested window itself, whatever its start.
n1_at_window_end(audio_i16, sr, start_s, dur_s) ==
    Min(Len(audio_i16),
        TruncDiv(start_s * sr, DurDen) + TruncDiv(dur_s * sr, DurDen))

\* n1 = min(audio_i16.shape[0], n0 + int(dur_s * sr))
n1_of(audio_i16, sr, start_s, dur_s) ==
    Min(Len(audio_i16), n0_of(start_s, sr) + TruncDiv(dur_s * sr, DurDen))

\* sf.write(buf, x, sr, format='WAV', subtype='PCM_16'); buf.getvalue()
WavBytes(x, sr) ==
    [format |-> "WAV", subtype |-> "PCM_16", samplerate |-> sr,
     frames |-> Len(x), data |-> x]

ExactZero(semitones) == semitones = 0

\* abs(float(semitones)) < 1e-6
ZeroShift(semitones) == Abs(semitones) < SemiDen \div 1000000

\* What ffmpeg may do with a clip: fail (a non-zero return code, no output,
\* no ffmpeg at all), or write a track one sample shorter than the clip, as
\* long, or one sample longer.
ToolOutcomes == [ok : BOOLEAN, delta : {-1, 0, 1}]

\* The samples ffmpeg wrote, after (np.clip(y, -1.0, 1.0) * 32767.0)
\* .astype(np.int16): not those of the clip.
ToolOutput(len) == [k \in 1..len |-> -k]

ffmpeg_unfitted(clip_i16, tool) ==
    IF ~tool.ok THEN clip_i16
    ELSE ToolOutput(Max(0, Len(clip_i16) + tool.delta))

\* A failure of the tool gives silence of the clip's length.
ffmpeg_silent_on_failure(clip_i16, tool) ==
    IF ~tool.ok THEN [k \in 1..Len(clip_i16) |-> 0]
    ELSE LET target_len == Len(clip_i16)
             y_i16 == ToolOutput(Max(0, target_len + tool.delta))
         IN  [k \in 1..target_len |->
                IF k <= Len(y_i16) THEN y_i16[k] ELSE 0]

\* _ffmpeg_pitch_shift: the tool's output cut or zero-padded to the clip's
\* length, and the clip itself when anything fails.
ffmpeg_pitch_shift(clip_i16, tool) ==
    IF ~tool.ok THEN clip_i16
    ELSE LET target_len == Len(clip_i16)
             y_i16 == ToolOutput(Max(0, target_len + tool.delta))
         IN  [k \in 1..target_len |->
                IF k <= Len(y_i16) THEN y_i16[k] ELSE 0]

\* The bytes returned, and whether ffmpeg was run.
pitch_shift_preview(audio_i16, sr, semitones, start_s, dur_s, tool) ==
    LET n0 == n0_of(start_s, sr)
        n1 == n1_of(audio_i16, sr, start_s, dur_s)
        clip == SubSeq(audio_i16, n0 + 1, n1)
    IN  IF n1 <= n0
        THEN [bytes |-> WavBytes(<<>>, sr), toolCalled |-> FALSE]
        ELSE IF ZeroShift(semitones)
        THEN [bytes |-> WavBytes(clip, sr), toolCalled |-> FALSE]
        ELSE [bytes |-> WavBytes(ffmpeg_pitch_shift(clip, tool), sr),
              toolCalled |-> TRUE]

(***************************************************************************)
(* State.                                                                  *)
(***************************************************************************)
VARIABLES
    now,       \* the wall clock, in hours
    SESSIONS,  \* the registry: session id -> session record
    created,   \* history: <<id, created_at>> of every session registered, in order
    dirs,      \* PROCESSED_FOLDER/<id> exists
    files,     \* the files in PROCESSED_FOLDER/<id>
    uploads,   \* the ids whose uploaded input file exists in UPLOAD_FOLDER
    wk,        \* the worker thread of each session
    sw,        \* the cleanup sweep (cleanup_old_sessions)
    cl,        \* the two callers of cleanup_session_files: sweep and request
    rd,        \* the request thread of get-status
    resp,      \* the response the last step returned, if it returned one
    ck,        \* the Chunker harness of ChunkerSpec
    cf,        \* the Stitcher harness of StitcherSpec
    pv,        \* the pitch-preview harness of PitchSpec
    ml         \* the separation model, its lock and the threads loading it

\* The harnesses of the pure functions: no action of the session system
\* changes them.
harness == <<ck, cf, pv, ml>>

vars == <<now, SESSIONS, created, dirs, files, uploads, wk, sw, cl, rd, resp,
          harness>>

NoResp == [kind |-> "none"]

Registered == DOMAIN SESSIONS
Used == {created[k][1] : k \in DOMAIN created}
Born(s) == LET k == CHOOSE k \in DOMAIN created : created[k][1] = s
           IN  created[k][2]

\* File names in a session folder, as sequences of pieces of text: a name
\* is the pieces put one after the other.
Digit == <<"0", "1", "2", "3", "4", "5", "6", "7", "8", "9">>

\* The decimal digits of i >= 0.
RECURSIVE Decimal(_)
Decimal(i) ==
    IF i < 10 THEN <<Digit[i + 1]>>
    ELSE Decimal(i \div 10) \o <<Digit[(i % 10) + 1]>>

\* f"{i:03d}": the decimal digits, filled with zeros on the left to three.
Pad3(i) ==
    LET d == Decimal(i)
    IN  IF Len(d) >= 3 THEN d ELSE [k \in 1..(3 - Len(d)) |-> "0"] \o d

\* A chunk file named for its stem only.
ChunkFileOfStem(i, stem) == <<"chunk_", stem, ".wav">>

\* f"chunk_{i:03d}_{stem_name}.wav"
ChunkFile(i, stem) == <<"chunk_">> \o Pad3(i) \o <<"_", stem, ".wav">>

\* f"{stem_name}.wav"
FullFile(stem) == <<stem, ".wav">>

(***************************************************************************)
(* create-session.                                                         *)
(***************************************************************************)
NewSessionTotalUnknown(kind, total, t) ==
    [kind |-> kind, total_chunks |-> 0, ready |-> <<>>, stems |-> {},
     done |-> FALSE, error |-> "None", created_at |-> t]

NewSession(kind, total, t) ==
    [kind |-> kind, total_chunks |-> total, ready |-> <<>>, stems |-> {},
     done |-> FALSE, error |-> "None", created_at |-> t]

NoWorker ==
    [pc |-> "none", kind |-> "none", n |-> 0, url |-> FALSE, i |-> 0,
     cur |-> <<>>, bufKeys |-> <<>>, bufParts |-> <<>>, exc |-> "None",
     crash |-> FALSE,
     \* history
     calls |-> <<>>, outs |-> <<>>, fetched |-> <<>>, sentinel |-> -1,
     failed |-> FALSE, decodeErr |-> FALSE, stitched |-> <<>>,
     totals |-> <<>>, removal |-> "none"]

Register(s, rec) ==
    /\ SESSIONS' = [x \in Registered \cup {s} |->
                        IF x = s THEN rec ELSE SESSIONS[x]]
    /\ created' = Append(created, <<s, rec.created_at>>)

\* uuid.uuid4(): an id no session and no folder was ever given, and that no
\* request in progress can name.
FreshId(s) ==
    /\ s \notin Used
    /\ ~dirs[s]
    /\ s \notin uploads
    /\ \A c \in DOMAIN cl : cl[c].sid # s

\* An uploaded file of len samples: its PCM buffer.
Ramp(len) == [k \in 1..len |-> k]

\* upload_audio: the upload is readable; the session is registered and its
\* worker thread started.
upload_audio(s, len) ==
    LET res == split_audio_into_chunks(Ramp(len), UploadRate,
                                       CHUNK_DURATION * DurDen)
    IN  /\ FreshId(s)
        /\ res.ok
        /\ dirs' = [dirs EXCEPT ![s] = TRUE]
        /\ uploads' = uploads \cup {s}
        /\ Register(s, NewSession("local", Len(res.chunks), now))
        /\ wk' = [wk EXCEPT ![s] = [NoWorker EXCEPT !.pc = "load",
                                       !.kind = "local",
                                       !.n = Len(res.chunks)]]
        /\ resp' = [kind |-> "create", code |-> 200, sid |-> s,
                    total_chunks |-> Len(res.chunks)]
        /\ UNCHANGED <<now, files, sw, cl, rd, harness>>

\* upload_audio: load_audio raises (the upload cannot be decoded): the
\* folder and the saved upload stay, nothing is registered.
upload_audio_unreadable(s) ==
    /\ FreshId(s)
    /\ dirs' = [dirs EXCEPT ![s] = TRUE]
    /\ uploads' = uploads \cup {s}
    /\ resp' = [kind |-> "create", code |-> 500, sid |-> s, total_chunks |-> 0]
    /\ UNCHANGED <<now, SESSIONS, created, files, wk, sw, cl, rd, harness>>

\* yt_start_session: audio_url is the resolved stream, or None.
yt_start_session(s, url) ==
    /\ FreshId(s)
    /\ dirs' = [dirs EXCEPT ![s] = TRUE]
    /\ Register(s, NewSession("remote", 0, now))
    /\ wk' = [wk EXCEPT ![s] = [NoWorker EXCEPT !.pc = "load",
                                   !.kind = "remote", !.url = url]]
    /\ resp' = [kind |-> "create", code |-> 200, sid |-> s, total_chunks |-> 0]
    /\ UNCHANGED <<now, files, uploads, sw, cl, rd, harness>>

(***************************************************************************)
(* The worker thread: process_session (local) and process_stream (remote). *)
(* pc is the statement the thread executes next.                           *)
(***************************************************************************)
W(s) == wk[s]

SetW(s, w) == wk' = [wk EXCEPT ![s] = w]

\* The head of the chunk loop after chunk i is finished or skipped.
LoopHead(w) == IF w.kind = "local" THEN "sep" ELSE "fetch"

RaiseAndGoOn(w, e, isFailure) ==
    IF isFailure /\ w.pc \in {"sep", "write"}
    THEN [w EXCEPT !.pc = LoopHead(w), !.i = w.i + 1, !.cur = <<>>,
                   !.exc = e, !.failed = TRUE]
    ELSE [w EXCEPT !.pc = "except", !.exc = e,
                   !.failed = (w.failed \/ isFailure)]

\* An exception e leaves the try block: the handler runs next.
Raise(w, e, isFailure) ==
    [w EXCEPT !.pc = "except", !.exc = e,
              !.failed = (w.failed \/ isFailure)]

\* The field is written in the record of every registered session.
SessionsExceptAll(s, field, v) ==
    [x \in DOMAIN SESSIONS |-> [SESSIONS[x] EXCEPT ![field] = v]]

SessionsExcept(s, field, v) ==
    [SESSIONS EXCEPT ![s] = [SESSIONS[s] EXCEPT ![field] = v]]

\* mdl = load_model_safe(): the model is returned, or loading raises.
W_load(s, ok) ==
    /\ W(s).pc = "load"
    /\ SetW(s, IF ok THEN [W(s) EXCEPT !.pc = LoopHead(W(s))]
               ELSE Raise(W(s), "load failed", FALSE))
    /\ resp' = NoResp
    /\ UNCHANGED <<now, SESSIONS, created, dirs, files, uploads, sw, cl, rd, harness>>

\* _read_remote_chunk_wav(audio_url, chunk_index * chunk_duration, ...):
\* the window, or (None, None) at the end of the stream or on any failure.
\* `if not audio_url: break` leaves the loop without a request.
W_fetch(s, data) ==
    /\ W(s).pc = "fetch"
    /\ data => (W(s).url /\ W(s).i < MaxChunks)
    /\ SetW(s, IF ~W(s).url
               THEN [W(s) EXCEPT !.pc = "stitch", !.cur = W(s).bufKeys]
               ELSE IF data
               THEN [W(s) EXCEPT !.pc = "sep",
                                 !.fetched = Append(@, W(s).i)]
               ELSE [W(s) EXCEPT !.pc = "stitch", !.cur = W(s).bufKeys,
                                 !.fetched = Append(@, W(s).i),
                                 !.sentinel = W(s).i])
    /\ resp' = NoResp
    /\ UNCHANGED <<now, SESSIONS, created, dirs, files, uploads, sw, cl, rd, harness>>

\* _read_remote_chunk_wav: ffmpeg exits non-zero or sf.read cannot decode
\* its output for a window of a stream that has more data; the function
\* catches that and returns (None, None), which the loop takes as the end.
W_fetch_fails(s) ==
    /\ W(s).pc = "fetch"
    /\ W(s).url
    /\ W(s).i < MaxChunks
    /\ SetW(s, [W(s) EXCEPT !.pc = "stitch", !.cur = W(s).bufKeys,
                            !.fetched = Append(@, W(s).i),
                            !.sentinel = W(s).i,
                            !.decodeErr = TRUE])
    /\ resp' = NoResp
    /\ UNCHANGED <<now, SESSIONS, created, dirs, files, uploads, sw, cl, rd, harness>>

\* The keys of the result map, in the order separated.items() yields them.
Items(out) == Filter(StemOrder, out)

\* The next chunk is taken with stems of this one still to be written.
AfterSeparationSkipsStems(w, out) ==
    [w EXCEPT !.pc = LoopHead(w), !.i = w.i + 1, !.cur = <<>>]

\* The statement after the last stem of chunk w.i was handled.
NextChunk(w) == [w EXCEPT !.pc = LoopHead(w), !.i = w.i + 1, !.cur = <<>>]

\* After process() returned the map with keys out for chunk w.i.
AfterSeparation(w, out) ==
    IF out = {} THEN NextChunk(w)
    ELSE [w EXCEPT !.pc = "stems_add", !.cur = Items(out)]

\* separated = process(audio_array=chunk, model=mdl, device='cpu'): a map
\* from stem names to audio (its key set is out), or an exception.
W_separate(s, ok, out) ==
    /\ W(s).pc = "sep"
    /\ W(s).kind = "local" => W(s).i < W(s).n
    /\ LET w == [W(s) EXCEPT !.calls = Append(@, W(s).i),
                             !.outs = Append(@, IF ok THEN out ELSE {})]
       IN  SetW(s, IF ok THEN AfterSeparation(w, out)
                   ELSE Raise(w, "separation failed", TRUE))
    /\ resp' = NoResp
    /\ UNCHANGED <<now, SESSIONS, created, dirs, files, uploads, sw, cl, rd, harness>>

\* for i, chunk in enumerate(chunks): the list is exhausted.
W_loop_end(s) ==
    /\ W(s).pc = "sep"
    /\ W(s).kind = "local"
    /\ W(s).i >= W(s).n
    /\ SetW(s, [W(s) EXCEPT !.pc = "stitch", !.cur = W(s).bufKeys])
    /\ resp' = NoResp
    /\ UNCHANGED <<now, SESSIONS, created, dirs, files, uploads, sw, cl, rd, harness>>

\* The index is marked ready together with the stem, ahead of the write.
W_stems_add_marks_ready(s) ==
    /\ W(s).pc = "stems_add"
    /\ IF s \in Registered
       THEN /\ SESSIONS' =
                [SESSIONS EXCEPT
                    ![s].stems = @ \cup {Head(W(s).cur)},
                    ![s].ready =
                        [k \in DOMAIN @ \cup {Head(W(s).cur)} |->
                            IF k = Head(W(s).cur)
                            THEN (IF k \in DOMAIN @ THEN @[k] ELSE {})
                                    \cup {W(s).i}
                            ELSE @[k]]]
            /\ SetW(s, [W(s) EXCEPT !.pc = "write"])
       ELSE /\ SetW(s, Raise(W(s), "KeyError", FALSE))
            /\ UNCHANGED SESSIONS
    /\ resp' = NoResp
    /\ UNCHANGED <<now, created, dirs, files, uploads, sw, cl, rd, harness>>

\* SESSIONS[session_id]['stems'].add(stem_name)
W_stems_add(s) ==
    /\ W(s).pc = "stems_add"
    /\ IF s \in Registered
       THEN /\ SESSIONS' = SessionsExcept(s, "stems",
                               SESSIONS[s].stems \cup {Head(W(s).cur)})
            /\ SetW(s, [W(s) EXCEPT !.pc = "write"])
       ELSE /\ SetW(s, Raise(W(s), "KeyError", FALSE))
            /\ UNCHANGED SESSIONS
    /\ resp' = NoResp
    /\ UNCHANGED <<now, created, dirs, files, uploads, sw, cl, rd, harness>>

\* sf.write(stem_path, ...): creates the file in the session folder, or
\* raises (always so when the folder does not exist).
W_write(s, ok) ==
    /\ W(s).pc = "write"
    /\ ok => dirs[s]
    /\ IF ok
       THEN /\ files' = [files EXCEPT ![s] =
                            @ \cup {ChunkFile(W(s).i, Head(W(s).cur))}]
            /\ SetW(s, [W(s) EXCEPT !.pc = "ready_add"])
       ELSE /\ SetW(s, Raise(W(s), "write failed", TRUE))
            /\ UNCHANGED files
    /\ resp' = NoResp
    /\ UNCHANGED <<now, SESSIONS, created, dirs, uploads, sw, cl, rd, harness>>

ReadyOverwrite(ready, stem, i) ==
    [k \in DOMAIN ready \cup {stem} |-> IF k = stem THEN {i} ELSE ready[k]]

\* The index after i is the one marked ready.
ReadyAddNext(ready, stem, i) ==
    [k \in DOMAIN ready \cup {stem} |->
        IF k = stem
        THEN (IF stem \in DOMAIN ready THEN ready[stem] ELSE {}) \cup {i + 1}
        ELSE ready[k]]

\* ready.setdefault(stem_name, set()).add(i)
ReadyAdd(ready, stem, i) ==
    [k \in DOMAIN ready \cup {stem} |->
        IF k = stem
        THEN (IF stem \in DOMAIN ready THEN ready[stem] ELSE {}) \cup {i}
        ELSE ready[k]]

\* stem_buffers.setdefault(stem_name, []).append(stem_audio): the parts of
\* a stem are named by the chunk index they come from.
BufAppend(w, stem, i) ==
    [w EXCEPT
        !.bufKeys = IF stem \in Range(w.bufKeys) THEN @ ELSE Append(@, stem),
        !.bufParts = [k \in DOMAIN w.bufParts \cup {stem} |->
                        IF k = stem
                        THEN (IF stem \in DOMAIN w.bufParts
                              THEN w.bufParts[stem] ELSE <<>>) \o <<i>>
                        ELSE w.bufParts[k]]]

\* SESSIONS[session_id]['ready'].setdefault(stem_name, set()).add(i), then
\* the append to stem_buffers, then the next stem or the next chunk.
W_ready_add(s) ==
    /\ W(s).pc = "ready_add"
    /\ IF s \in Registered
       THEN LET stem == Head(W(s).cur)
                w == BufAppend(W(s), stem, W(s).i)
            IN  /\ SESSIONS' = SessionsExcept(s, "ready",
                                   ReadyAdd(SESSIONS[s].ready, stem, W(s).i))
                /\ SetW(s, IF Tail(w.cur) = <<>> THEN NextChunk(w)
                           ELSE [w EXCEPT !.pc = "stems_add",
                                          !.cur = Tail(w.cur)])
       ELSE /\ SetW(s, Raise(W(s), "KeyError", FALSE))
            /\ UNCHANGED SESSIONS
    /\ resp' = NoResp
    /\ UNCHANGED <<now, created, dirs, files, uploads, sw, cl, rd, harness>>

\* A stem that cannot be stitched or written is left out.
W_stitch_goes_on(s, ok) ==
    /\ W(s).pc = "stitch"
    /\ W(s).cur # <<>>
    /\ ok => dirs[s]
    /\ IF ok
       THEN /\ files' = [files EXCEPT ![s] = @ \cup {FullFile(Head(W(s).cur))}]
            /\ SetW(s, [W(s) EXCEPT
                    !.cur = Tail(@),
                    !.stitched = Append(@,
                        [stem |-> Head(W(s).cur),
                         parts |-> W(s).bufParts[Head(W(s).cur)]])])
       ELSE /\ SetW(s, [W(s) EXCEPT !.cur = Tail(@), !.failed = TRUE])
            /\ UNCHANGED files
    /\ resp' = NoResp
    /\ UNCHANGED <<now, SESSIONS, created, dirs, uploads, sw, cl, rd, harness>>

\* for stem_name, parts in stem_buffers.items(): crossfade_concat, then
\* sf.write of <stem>.wav; raises when the folder does not exist.
W_stitch(s, ok) ==
    /\ W(s).pc = "stitch"
    /\ W(s).cur # <<>>
    /\ ok => dirs[s]
    /\ IF ok
       THEN /\ files' = [files EXCEPT ![s] = @ \cup {FullFile(Head(W(s).cur))}]
            /\ SetW(s, [W(s) EXCEPT
                    !.cur = Tail(@),
                    !.stitched = Append(@,
                        [stem |-> Head(W(s).cur),
                         parts |-> W(s).bufParts[Head(W(s).cur)]])])
       ELSE /\ SetW(s, Raise(W(s), "write failed", TRUE))
            /\ UNCHANGED files
    /\ resp' = NoResp
    /\ UNCHANGED <<now, SESSIONS, created, dirs, uploads, sw, cl, rd, harness>>

EndingWithoutFinally(w) == IF w.crash THEN "crashed" ELSE "ended"

\* The statement that ends the worker: the finally clause of
\* process_session; process_stream has none.
Ending(w) == IF w.kind = "local" THEN "finally" ELSE
             IF w.crash THEN "crashed" ELSE "ended"

TotalAfterLast(w) == w.i + 1

\* chunk_index when the fetch loop is left: one more than the index of the
\* last window that was separated.
TotalAtEnd(w) == w.i

\* The stitch loop is over. process_stream:
\* SESSIONS[session_id]['total_chunks'] = chunk_index
W_set_total(s) ==
    /\ W(s).pc = "stitch"
    /\ W(s).cur = <<>>
    /\ W(s).kind = "remote"
    /\ IF s \in Registered
       THEN /\ SESSIONS' = SessionsExcept(s, "total_chunks",
                                           TotalAtEnd(W(s)))
            /\ SetW(s, [W(s) EXCEPT !.pc = "set_done",
                                    !.totals = Append(@, TotalAtEnd(W(s)))])
       ELSE /\ SetW(s, Raise(W(s), "KeyError", FALSE))
            /\ UNCHANGED SESSIONS
    /\ resp' = NoResp
    /\ UNCHANGED <<now, created, dirs, files, uploads, sw, cl, rd, harness>>

\* SESSIONS[session_id]['done'] = True
W_set_done(s) ==
    /\ \/ W(s).pc = "set_done"
       \/ W(s).pc = "stitch" /\ W(s).cur = <<>> /\ W(s).kind = "local"
    /\ IF s \in Registered
       THEN /\ SESSIONS' = SessionsExcept(s, "done", TRUE)
            /\ SetW(s, [W(s) EXCEPT !.pc = Ending(W(s))])
       ELSE /\ SetW(s, Raise(W(s), "KeyError", FALSE))
            /\ UNCHANGED SESSIONS
    /\ resp' = NoResp
    /\ UNCHANGED <<now, created, dirs, files, uploads, sw, cl, rd, harness>>

\* The handler records the error and marks the session finished.
W_except_sets_done(s) ==
    /\ W(s).pc = "except"
    /\ IF s \in Registered
       THEN /\ SESSIONS' = [SESSIONS EXCEPT ![s] =
                                [SESSIONS[s] EXCEPT !.error = W(s).exc,
                                                    !.done = TRUE]]
            /\ SetW(s, [W(s) EXCEPT !.pc = Ending(W(s))])
       ELSE /\ SetW(s, LET w == [W(s) EXCEPT !.crash = TRUE]
                       IN  [w EXCEPT !.pc = Ending(w)])
            /\ UNCHANGED SESSIONS
    /\ resp' = NoResp
    /\ UNCHANGED <<now, created, dirs, files, uploads, sw, cl, rd, harness>>

\* except Exception as e: SESSIONS[session_id]['error'] = str(e). With the
\* entry gone the handler itself raises KeyError, which leaves the thread
\* (after the finally clause).
W_except(s) ==
    /\ W(s).pc = "except"
    /\ IF s \in Registered
       THEN /\ SESSIONS' = SessionsExcept(s, "error", W(s).exc)
            /\ SetW(s, [W(s) EXCEPT !.pc = Ending(W(s))])
       ELSE /\ SetW(s, LET w == [W(s) EXCEPT !.crash = TRUE]
                       IN  [w EXCEPT !.pc = Ending(w)])
            /\ UNCHANGED SESSIONS
    /\ resp' = NoResp
    /\ UNCHANGED <<now, created, dirs, files, uploads, sw, cl, rd, harness>>

W_finally_rmtree(s) ==
    /\ W(s).pc = "finally"
    /\ uploads' = uploads \ {s}
    /\ files' = [files EXCEPT ![s] = {}]
    /\ SetW(s, [W(s) EXCEPT !.pc = IF W(s).crash THEN "crashed" ELSE "ended"])
    /\ resp' = NoResp
    /\ UNCHANGED <<now, SESSIONS, created, dirs, sw, cl, rd, harness>>

\* finally: try: os.remove(filepath) except Exception: pass. The upload
\* is removed, or is already gone and the FileNotFoundError is passed over.
W_finally(s) ==
    /\ W(s).pc = "finally"
    /\ uploads' = uploads \ {s}
    /\ SetW(s, [W(s) EXCEPT
                    !.pc = IF W(s).crash THEN "crashed" ELSE "ended",
                    !.removal = IF s \in uploads THEN "removed"
                                ELSE "already gone"])
    /\ resp' = NoResp
    /\ UNCHANGED <<now, SESSIONS, created, dirs, files, sw, cl, rd, harness>>

\* One step of the worker of session s.
WorkerStep(s) ==
    \/ \E ok \in BOOLEAN : W_load(s, ok)
    \/ \E data \in BOOLEAN : W_fetch(s, data)
    \/ \E ok \in BOOLEAN, out \in SUBSET Stems : W_separate(s, ok, out)
    \/ W_loop_end(s)
    \/ W_stems_add(s)
    \/ \E ok \in BOOLEAN : W_write(s, ok)
    \/ W_ready_add(s)
    \/ \E ok \in BOOLEAN : W_stitch(s, ok)
    \/ W_set_total(s)
    \/ W_set_done(s)
    \/ W_except(s)
    \/ W_finally(s)

(***************************************************************************)
(* The readers: status (get-status) and get_audio_file (get-artifact).     *)
(***************************************************************************)
IdleReader ==
    [pc |-> "idle", sid |-> "none", used |-> 0, seen |-> {}, out |-> <<>>,
     detached |-> FALSE, state |-> NewSession("none", 0, 0)]

\* The dict object `state` of the request: the registry's record, which
\* the worker keeps writing, until the registry drops it.
RdState == IF rd.detached THEN rd.state ELSE SESSIONS[rd.sid]

\* sorted(list(v)) for a set of chunk indices.
RECURSIVE sorted(_)
sorted(S) ==
    IF S = {} THEN <<>>
    ELSE LET m == CHOOSE x \in S : \A y \in S : x <= y
         IN  <<m>> \o sorted(S \ {m})

\* The stem names in string order.
NameOrder == <<"other", "vocals">>

\* sorted(list(state['stems'])) for a set of stem names.
sorted_names(S) == Filter(NameOrder, S)

\* state = SESSIONS.get(session_id); 404 when there is none; otherwise the
\* iterator of state['ready'].items() is made.
St_begin(s) ==
    /\ rd.pc = "idle"
    /\ IF s \in Registered
       THEN /\ rd' = [IdleReader EXCEPT
                        !.pc = "iter", !.sid = s,
                        !.used = Cardinality(DOMAIN SESSIONS[s].ready)]
            /\ resp' = NoResp
       ELSE /\ resp' = [kind |-> "status", code |-> 404, sid |-> s]
            /\ UNCHANGED rd
    /\ UNCHANGED <<now, SESSIONS, created, dirs, files, uploads, wk, sw, cl,
                   harness>>

\* The body of the response once the comprehension over ready is over.
StatusBody(state, ready_out) ==
    [kind |-> "status", code |-> 200, sid |-> rd.sid,
     ready |-> ready_out,
     stems |-> sorted_names(state.stems),
     total_chunks |-> state.total_chunks,
     done |-> state.done,
     error |-> state.error]

\* {k: sorted(list(v)) for k, v in state['ready'].items()}: one step of the
\* dict iterator. It raises RuntimeError when the dict changed size since
\* the iterator was made (the request answers 500); it yields the next
\* item; or it is exhausted, and the other fields are read and the
\* response returned.
St_next ==
    /\ rd.pc = "iter"
    /\ LET ready == RdState.ready
           unseen == Filter(StemOrder, DOMAIN ready \ rd.seen)
       IN  IF Cardinality(DOMAIN ready) # rd.used
           THEN /\ resp' = [kind |-> "status", code |-> 500, sid |-> rd.sid]
                /\ rd' = IdleReader
           ELSE IF unseen # <<>>
           THEN LET k == Head(unseen)
                IN  /\ rd' = [rd EXCEPT
                                !.seen = @ \cup {k},
                                !.out = [x \in DOMAIN rd.out \cup {k} |->
                                            IF x = k THEN sorted(ready[k])
                                            ELSE rd.out[x]]]
                    /\ resp' = NoResp
           ELSE /\ resp' = StatusBody(RdState, rd.out)
                /\ rd' = IdleReader
    /\ UNCHANGED <<now, SESSIONS, created, dirs, files, uploads, wk, sw, cl,
                   harness>>

\* The names a request for an artifact may give.
FileNames ==
    {ChunkFile(i, stem) : i \in 0..(MaxChunks - 1), stem \in Stems}
        \cup {FullFile(stem) : stem \in Stems}

\* send_from_directory(session_folder, filename): the file, or 404.
Served(s, f) == dirs[s] /\ f \in files[s]

\* GET /api/audio/<session_id>/<filename>
get_audio_file(s, f) ==
    /\ resp' = [kind |-> "audio", code |-> IF Served(s, f) THEN 200 ELSE 404,
                sid |-> s, file |-> f]
    /\ UNCHANGED <<now, SESSIONS, created, dirs, files, uploads, wk, sw, cl,
                   rd, harness>>

ReaderStep ==
    \/ \E s \in SessionIds : St_begin(s)
    \/ St_next
    \/ \E s \in SessionIds, f \in FileNames : get_audio_file(s, f)

(***************************************************************************)
(* get-pitch-preview: pitch_preview, the choice of the file it shifts.     *)
(* The handler reads the registry and the folder and writes nothing.       *)
(***************************************************************************)
\* for name in ['instrumental', 'other', 'drums', 'bass']
PreferredFull == <<"instrumental", "other", "drums", "bass">>

\* for nm in ['instrumental', 'other', 'drums', 'bass', 'accompaniment']
PreferredChunk == <<"instrumental", "other", "drums", "bass", "accompaniment">>

\* The start times (seconds) a preview request may give.
PreviewStarts == {-1, 0, CHUNK_DURATION, 2 * CHUNK_DURATION + 1}

\* desired_idx = max(0, int(start_s // max(0.001, chunk_duration)))
desired_idx(start_s) == Max(0, start_s \div CHUNK_DURATION)

\* The lowest available index, whatever the requested start.
nearest_lowest(available, desired) == Head(sorted(available))

\* min(available, key=lambda i: abs(i - desired_idx)) over the sorted list:
\* the first index of the least distance.
nearest(available, desired) ==
    LET best == {i \in available :
                    \A j \in available : Abs(i - desired) <= Abs(j - desired)}
    IN  Head(sorted(best))

\* The continuous artifact the first loop finds: <<name>>, or <<>>.
FullChoice(s) ==
    LET found == Filter(PreferredFull,
                        {n \in Stems : dirs[s] /\ FullFile(n) \in files[s]})
    IN  IF found = <<>> THEN <<>> ELSE <<Head(found)>>

\* candidate_stems: the preferred stems with a non-empty readiness set,
\* or else the first stem of ready.items() with one.
candidate_stems(ready) ==
    LET nonEmpty == {n \in DOMAIN ready : ready[n] # {}}
        pref == Filter(PreferredChunk, nonEmpty)
        any == Filter(StemOrder, nonEmpty)
    IN  IF pref # <<>> THEN pref
        ELSE IF any # <<>> THEN <<Head(any)>> ELSE <<>>

\* The chunk artifact of the fall-back: <<file, start_for_file>>, or <<>>
\* when no stem has a ready chunk or the file of the chosen chunk is
\* missing.
ChunkChoice(s, start_s) ==
    LET ready == SESSIONS[s].ready
        cand == candidate_stems(ready)
    IN  IF cand = <<>> THEN <<>>
        ELSE LET stem_name == Head(cand)
                 idx == nearest(ready[stem_name], desired_idx(start_s))
                 p == ChunkFile(idx, stem_name)
             IN  IF dirs[s] /\ p \in files[s]
                 THEN <<p, Max(0, start_s - idx * CHUNK_DURATION)>>
                 ELSE <<>>

PreviewResp(s, code, file, start) ==
    [kind |-> "preview", code |-> code, sid |-> s, file |-> file,
     start |-> start]

NoFile == <<"none">>

\* The responses of GET /api/pitch_preview/<session_id>?start=...: 404
\* for an unknown id; the continuous artifact, else the nearest ready
\* chunk, else any .wav of the folder, in the order os.listdir gives
\* (which raises when the folder is gone: 500); 400 when the folder holds
\* none.
PreviewOutcomes(s, start_s) ==
    IF s \notin Registered THEN {PreviewResp(s, 404, NoFile, 0)}
    ELSE IF FullChoice(s) # <<>>
    THEN {PreviewResp(s, 200, FullFile(FullChoice(s)[1]), start_s)}
    ELSE IF ChunkChoice(s, start_s) # <<>>
    THEN {PreviewResp(s, 200, ChunkChoice(s, start_s)[1],
                      ChunkChoice(s, start_s)[2])}
    ELSE IF ~dirs[s] THEN {PreviewResp(s, 500, NoFile, 0)}
    ELSE IF files[s] = {} THEN {PreviewResp(s, 400, NoFile, 0)}
    ELSE {PreviewResp(s, 200, f, 0) : f \in files[s]}

pitch_preview(s, start_s) ==
    /\ resp' \in PreviewOutcomes(s, start_s)
    /\ UNCHANGED <<now, SESSIONS, created, dirs, files, uploads, wk, sw, cl,
                   rd, harness>>

(***************************************************************************)
(* Cleanup: cleanup_session_files and its two callers, the sweep           *)
(* (cleanup_old_sessions, a thread of its own) and delete-session          *)
(* (cleanup_session, a request thread).                                    *)
(***************************************************************************)
Cleaners == {"sweep", "req"}

\* fsErr: a removal raised in this call of cleanup_session_files (history).
IdleCleaner == [pc |-> "idle", sid |-> "none", fsErr |-> FALSE]

\* A call of cleanup_session_files(s) begins.
StartCleaner(s) == [pc |-> "rmtree", sid |-> s, fsErr |-> FALSE]

IdleSweep ==
    [pc |-> "idle", cutoff |-> 0, used |-> 0, seen |-> {}, todo |-> <<>>,
     \* history: the registry when the scan began, and the sessions whose
     \* cleanup met a failing removal
     atStart |-> {}, failedOn |-> {}]

ExpiredOrEqual(created_at, cutoff) == created_at <= cutoff

\* session_data.get('created_at', datetime.now()) < cutoff_time
Expired(created_at, cutoff) == created_at < cutoff

\* cleanup_session_files returned, and so did `if session_id in SESSIONS:
\* del SESSIONS[session_id]`: the request answers, the sweep goes on to
\* the next id of sessions_to_cleanup.
Return(c) ==
    IF c = "req"
    THEN /\ cl' = [cl EXCEPT ![c] = IdleCleaner]
         /\ resp' = [kind |-> "cleanup", code |-> 200, sid |-> cl[c].sid,
                     fsErr |-> cl[c].fsErr]
         /\ UNCHANGED sw
    ELSE /\ resp' = NoResp
         /\ LET failedOn == IF cl[c].fsErr THEN sw.failedOn \cup {cl[c].sid}
                            ELSE sw.failedOn
            IN  IF sw.todo = <<>>
                THEN /\ cl' = [cl EXCEPT ![c] = IdleCleaner]
                     /\ sw' = [sw EXCEPT !.pc = "finished",
                                         !.failedOn = failedOn]
                ELSE /\ cl' = [cl EXCEPT ![c] = StartCleaner(Head(sw.todo))]
                     /\ sw' = [sw EXCEPT !.todo = Tail(@),
                                         !.failedOn = failedOn]

\* del SESSIONS[session_id] raised KeyError: cleanup_session answers 500,
\* cleanup_old_sessions is left by the exception.
Throw(c) ==
    /\ cl' = [cl EXCEPT ![c] = IdleCleaner]
    /\ IF c = "req"
       THEN /\ resp' = [kind |-> "cleanup", code |-> 500, sid |-> cl[c].sid,
                        fsErr |-> cl[c].fsErr]
            /\ UNCHANGED sw
       ELSE /\ resp' = NoResp
            /\ sw' = [sw EXCEPT !.pc = "aborted"]

\* if os.path.exists(session_folder): shutil.rmtree(session_folder), first
\* half: every entry the folder lists is unlinked.
C_rmtree(c) ==
    /\ cl[c].pc = "rmtree"
    /\ LET s == cl[c].sid
       IN  IF dirs[s]
           THEN /\ files' = [files EXCEPT ![s] = {}]
                /\ cl' = [cl EXCEPT ![c].pc = "rmdir"]
           ELSE /\ cl' = [cl EXCEPT ![c].pc = "upload"]
                /\ UNCHANGED files
    /\ resp' = NoResp
    /\ UNCHANGED <<now, SESSIONS, created, dirs, uploads, wk, sw, rd, harness>>

C_rmdir_raises(c) ==
    /\ cl[c].pc = "rmdir"
    /\ LET s == cl[c].sid
       IN  IF dirs[s] /\ files[s] = {}
           THEN /\ dirs' = [dirs EXCEPT ![s] = FALSE]
                /\ cl' = [cl EXCEPT ![c].pc = "upload"]
                /\ resp' = NoResp
                /\ UNCHANGED sw
           ELSE /\ Throw(c)
                /\ UNCHANGED dirs
    /\ UNCHANGED <<now, SESSIONS, created, files, uploads, wk, rd, harness>>

\* shutil.rmtree, second half: os.rmdir of the folder. It raises when a
\* file was created in the folder since the listing, or the folder is
\* gone; the except clause of cleanup_session_files swallows that and the
\* removal of the upload is skipped.
C_rmdir(c) ==
    /\ cl[c].pc = "rmdir"
    /\ LET s == cl[c].sid
       IN  IF dirs[s] /\ files[s] = {}
           THEN /\ dirs' = [dirs EXCEPT ![s] = FALSE]
                /\ cl' = [cl EXCEPT ![c].pc = "upload"]
           ELSE /\ cl' = [cl EXCEPT ![c].pc = "chk", ![c].fsErr = TRUE]
                /\ UNCHANGED dirs
    /\ resp' = NoResp
    /\ UNCHANGED <<now, SESSIONS, created, files, uploads, wk, sw, rd, harness>>

\* if session_id in SESSIONS and 'filepath' in SESSIONS[session_id]:
\*     if os.path.exists(filepath): os.remove(filepath)
\* When the worker removes the file between the test and os.remove, the
\* FileNotFoundError is swallowed by the except clause: nothing is removed,
\* as when the test finds no file.
C_upload(c) ==
    /\ cl[c].pc = "upload"
    /\ LET s == cl[c].sid
       IN  uploads' = IF s \in Registered /\ SESSIONS[s].kind = "local"
                      THEN uploads \ {s} ELSE uploads
    /\ cl' = [cl EXCEPT ![c].pc = "chk"]
    /\ resp' = NoResp
    /\ UNCHANGED <<now, SESSIONS, created, dirs, files, wk, sw, rd, harness>>

\* if session_id in SESSIONS:
C_chk(c) ==
    /\ cl[c].pc = "chk"
    /\ IF cl[c].sid \in Registered
       THEN /\ cl' = [cl EXCEPT ![c].pc = "del"]
            /\ resp' = NoResp
            /\ UNCHANGED sw
       ELSE Return(c)
    /\ UNCHANGED <<now, SESSIONS, created, dirs, files, uploads, wk, rd, harness>>

\* A status request that holds the record of session s keeps reading that
\* dict object after the registry dropped it.
Detach(s) ==
    IF rd.pc # "idle" /\ rd.sid = s
    THEN [rd EXCEPT !.state = SESSIONS[s], !.detached = TRUE]
    ELSE rd

\* del SESSIONS[session_id]
C_del(c) ==
    /\ cl[c].pc = "del"
    /\ LET s == cl[c].sid
       IN  IF s \in Registered
           THEN /\ SESSIONS' = [x \in Registered \ {s} |-> SESSIONS[x]]
                /\ rd' = Detach(s)
                /\ Return(c)
           ELSE /\ Throw(c)
                /\ UNCHANGED <<SESSIONS, rd>>
    /\ UNCHANGED <<now, created, dirs, files, uploads, wk, harness>>

CleanerStep(c) ==
    \/ C_rmtree(c)
    \/ C_rmdir(c)
    \/ C_upload(c)
    \/ C_chk(c)
    \/ C_del(c)

\* POST /api/cleanup/<session_id>: any id, known or not.
cleanup_session(s) ==
    /\ cl["req"].pc = "idle"
    /\ cl' = [cl EXCEPT !["req"] = StartCleaner(s)]
    /\ resp' = NoResp
    /\ UNCHANGED <<now, SESSIONS, created, dirs, files, uploads, wk, sw, rd, harness>>

\* cleanup_old_sessions starts: cutoff_time = datetime.now() -
\* timedelta(hours=1), and the iterator over SESSIONS.items() is made.
S_begin ==
    /\ sw.pc \in {"idle", "finished", "aborted"}
    /\ sw' = [pc |-> "scan", cutoff |-> now - Retention,
              used |-> Cardinality(Registered), seen |-> {}, todo |-> <<>>,
              atStart |-> Registered, failedOn |-> {}]
    /\ resp' = NoResp
    /\ UNCHANGED <<now, SESSIONS, created, dirs, files, uploads, wk, cl, rd, harness>>

\* The entries of the dict the iterator has not yielded, in insertion order.
Unseen == Filter([k \in DOMAIN created |-> created[k][1]],
                 Registered \ sw.seen)

\* for session_id, session_data in SESSIONS.items(): one step of the
\* iterator. It raises RuntimeError when the dict changed size since the
\* iterator was made; the exception leaves cleanup_old_sessions.
S_scan ==
    /\ sw.pc = "scan"
    /\ IF Cardinality(Registered) # sw.used
       THEN /\ sw' = [sw EXCEPT !.pc = "aborted"]
            /\ UNCHANGED cl
       ELSE IF Unseen # <<>>
       THEN LET s == Head(Unseen)
            IN  /\ sw' = [sw EXCEPT
                            !.seen = @ \cup {s},
                            !.todo = IF Expired(SESSIONS[s].created_at,
                                                sw.cutoff)
                                     THEN Append(@, s) ELSE @]
                /\ UNCHANGED cl
       ELSE IF sw.todo = <<>>
       THEN /\ sw' = [sw EXCEPT !.pc = "finished"]
            /\ UNCHANGED cl
       ELSE /\ sw' = [sw EXCEPT !.pc = "clean", !.todo = Tail(@)]
            /\ cl' = [cl EXCEPT !["sweep"] = StartCleaner(Head(sw.todo))]
    /\ resp' = NoResp
    /\ UNCHANGED <<now, SESSIONS, created, dirs, files, uploads, wk, rd, harness>>

\* One step of the sweep thread.
SweepStep == S_begin \/ S_scan \/ CleanerStep("sweep")

\* Time passes.
Tick ==
    /\ now < MaxTime
    /\ now' = now + 1
    /\ resp' = NoResp
    /\ UNCHANGED <<SESSIONS, created, dirs, files, uploads, wk, sw, cl, rd, harness>>

(***************************************************************************)
(* The session pipeline: one session, its worker with every result the     *)
(* collaborators may give, delete-session and the readers.                 *)
(***************************************************************************)
IdleChunker == [pc |-> "idle", audio |-> <<>>, rate |-> 0, dur |-> 0,
                res |-> [ok |-> FALSE, chunks |-> <<>>]]

\* No call of crossfade_concat, none of pitch_shift_preview.
IdleStitcher == [pc |-> "idle"]

NoBytes == [format |-> "none"]

IdlePitch == [pc |-> "idle"]

\* model = None, model_lock free, and no thread in load_model_safe.
NoLoader == [pc |-> "idle"]

InitSessions ==
    /\ now = 0
    /\ SESSIONS = <<>>
    /\ created = <<>>
    /\ dirs = [s \in SessionIds |-> FALSE]
    /\ files = [s \in SessionIds |-> {}]
    /\ uploads = {}
    /\ wk = [s \in SessionIds |-> NoWorker]
    /\ sw = IdleSweep
    /\ cl = [c \in Cleaners |-> IdleCleaner]
    /\ rd = IdleReader
    /\ resp = NoResp

Init ==
    /\ InitSessions
    /\ ck = IdleChunker /\ cf = IdleStitcher /\ pv = IdlePitch
    /\ ml = NoLoader

\* The sessions of the pipeline specification.
PipelineIds == {"s1"}

\* The lengths of the uploads: up to MaxChunks windows and a remainder.
UploadLens == 0..(MaxChunks * CHUNK_DURATION * UploadRate + 1)

\* An artifact request reads the folder in one step and a status request
\* never touches the folder: the two are taken one after the other.
ArtifactRequest ==
    /\ rd.pc = "idle"
    /\ \E s \in PipelineIds, f \in FileNames : get_audio_file(s, f)

Next ==
    \/ \E s \in PipelineIds, len \in UploadLens : upload_audio(s, len)
    \/ \E s \in PipelineIds : upload_audio_unreadable(s)
    \/ \E s \in PipelineIds, url \in BOOLEAN : yt_start_session(s, url)
    \/ \E s \in PipelineIds : WorkerStep(s)
    \/ \E s \in PipelineIds : cleanup_session(s)
    \/ CleanerStep("req")
    \/ \E s \in PipelineIds : St_begin(s)
    \/ St_next
    \/ ArtifactRequest

Spec == Init /\ [][Next]_vars

(***************************************************************************)
(* The registry under the sweep: two sessions, each an upload of one       *)
(* window that separates into one stem, the sweep thread and the clock.    *)
(***************************************************************************)
SweepWorkerStep(s) ==
    \/ W_load(s, TRUE)
    \/ W_separate(s, TRUE, {"vocals"})
    \/ W_loop_end(s)
    \/ W_stems_add(s)
    \/ \E ok \in BOOLEAN : W_write(s, ok)
    \/ W_ready_add(s)
    \/ \E ok \in BOOLEAN : W_stitch(s, ok)
    \/ W_set_done(s)
    \/ W_except(s)
    \/ W_finally(s)

SweepNext ==
    \/ \E s \in SessionIds : upload_audio(s, CHUNK_DURATION * UploadRate)
    \/ \E s \in SessionIds : SweepWorkerStep(s)
    \/ SweepStep
    \/ Tick

SweepSpec == Init /\ [][SweepNext]_vars

(***************************************************************************)
(* A remote session and its worker, scheduled fairly: a thread that can    *)
(* take a step is given the processor again and again.                     *)
(***************************************************************************)
RemoteWorkerStep(s) ==
    \/ \E ok \in BOOLEAN : W_load(s, ok)
    \/ \E data \in BOOLEAN : W_fetch(s, data)
    \/ W_fetch_fails(s)
    \/ \E ok \in BOOLEAN, out \in SUBSET Stems : W_separate(s, ok, out)
    \/ W_stems_add(s)
    \/ \E ok \in BOOLEAN : W_write(s, ok)
    \/ W_ready_add(s)
    \/ \E ok \in BOOLEAN : W_stitch(s, ok)
    \/ W_set_total(s)
    \/ W_set_done(s)
    \/ W_except(s)

RemoteNext ==
    \/ \E s \in PipelineIds, url \in BOOLEAN : yt_start_session(s, url)
    \/ \E s \in PipelineIds : RemoteWorkerStep(s)
    \/ \E s \in PipelineIds : St_begin(s)
    \/ St_next

RemoteSpec ==
    /\ Init
    /\ [][RemoteNext]_vars
    /\ \A s \in PipelineIds : WF_vars(RemoteWorkerStep(s))

(***************************************************************************)
(* The request handlers around one session: create-session, a worker whose *)
(* collaborators do not fail, delete-session, get-status, get-artifact and *)
(* get-pitch-preview.                                                      *)
(***************************************************************************)
RequestWorkerStep(s) ==
    \/ W_load(s, TRUE)
    \/ \E out \in SUBSET Stems : W_separate(s, TRUE, out)
    \/ W_loop_end(s)
    \/ W_stems_add(s)
    \/ \E ok \in BOOLEAN : W_write(s, ok)
    \/ W_ready_add(s)
    \/ \E ok \in BOOLEAN : W_stitch(s, ok)
    \/ W_set_done(s)
    \/ W_except(s)
    \/ W_finally(s)

\* The requests that answer in one step, taken when no status request is
\* under way.
OneStepRequest ==
    /\ rd.pc = "idle"
    /\ \/ \E s \in PipelineIds, f \in FileNames : get_audio_file(s, f)
       \/ \E s \in PipelineIds, start_s \in PreviewStarts :
                pitch_preview(s, start_s)

RequestNext ==
    \/ \E s \in PipelineIds, len \in UploadLens : upload_audio(s, len)
    \/ \E s \in PipelineIds : RequestWorkerStep(s)
    \/ \E s \in PipelineIds : cleanup_session(s)
    \/ CleanerStep("req")
    \/ \E s \in PipelineIds : St_begin(s)
    \/ St_next
    \/ OneStepRequest

RequestSpec == Init /\ [][RequestNext]_vars

(***************************************************************************)
(* get-pitch-preview around one session: create-session, a worker whose    *)
(* collaborators do not fail, delete-session and the preview requests.     *)
(***************************************************************************)
PreviewNext ==
    \/ \E s \in PipelineIds, len \in UploadLens : upload_audio(s, len)
    \/ \E s \in PipelineIds : RequestWorkerStep(s)
    \/ \E s \in PipelineIds : cleanup_session(s)
    \/ CleanerStep("req")
    \/ \E s \in PipelineIds, start_s \in PreviewStarts :
            pitch_preview(s, start_s)

PreviewSpec == Init /\ [][PreviewNext]_vars

(***************************************************************************)
(* The two callers of cleanup together: the sweep thread and               *)
(* delete-session requests, over two sessions of one window each.          *)
(***************************************************************************)
\* The worker of a one-window upload whose writes fail only when the
\* session folder is gone.
CleanupWorkerStep(s) ==
    \/ W_load(s, TRUE)
    \/ W_separate(s, TRUE, {"vocals"})
    \/ W_loop_end(s)
    \/ W_stems_add(s)
    \/ W_write(s, dirs[s])
    \/ W_ready_add(s)
    \/ W_stitch(s, dirs[s])
    \/ W_set_done(s)
    \/ W_except(s)
    \/ W_finally(s)

\* No worker thread is running.
WorkersEnded == \A s \in SessionIds : W(s).pc \in {"none", "ended", "crashed"}

\* The sessions of this specification are created in the first hour, and
\* their workers end within the hour: the clock strikes when none runs.
CleanupNext ==
    \/ /\ now = 0
       /\ \E s \in SessionIds : upload_audio(s, CHUNK_DURATION * UploadRate)
    \/ \E s \in SessionIds : CleanupWorkerStep(s)
    \/ \E s \in SessionIds : cleanup_session(s)
    \/ CleanerStep("req")
    \/ SweepStep
    \/ WorkersEnded /\ Tick

CleanupSpec == Init /\ [][CleanupNext]_vars

(***************************************************************************)
(* The served application. `python -m backend.app` runs the __main__       *)
(* block of backend/app.py, which starts background_cleanup_task before    *)
(* app.run; `python run_app.py` imports app from backend.app and calls     *)
(* app.run, and the thread of the sweep is never started. Threads that are *)
(* started are scheduled fairly and the clock advances.                    *)
(***************************************************************************)
\* The sweep thread that was never started.
SweepNotStarted == [IdleSweep EXCEPT !.pc = "off"]

ServedInit ==
    /\ now = 0
    /\ SESSIONS = <<>>
    /\ created = <<>>
    /\ dirs = [s \in SessionIds |-> FALSE]
    /\ files = [s \in SessionIds |-> {}]
    /\ uploads = {}
    /\ wk = [s \in SessionIds |-> NoWorker]
    /\ sw \in {IdleSweep, SweepNotStarted}
    /\ cl = [c \in Cleaners |-> IdleCleaner]
    /\ rd = IdleReader
    /\ resp = NoResp
    /\ ck = IdleChunker
    /\ cf = IdleStitcher
    /\ pv = IdlePitch
    /\ ml = NoLoader

\* while True: cleanup_old_sessions(); time.sleep(...)
background_cleanup_task == SweepStep

ServedNext ==
    \/ /\ now = 0
       /\ \E s \in SessionIds : upload_audio(s, CHUNK_DURATION * UploadRate)
    \/ \E s \in SessionIds : SweepWorkerStep(s)
    \/ background_cleanup_task
    \/ WorkersEnded /\ Tick

ServedSpec ==
    /\ ServedInit
    /\ [][ServedNext]_vars
    /\ \A s \in SessionIds : WF_vars(SweepWorkerStep(s))
    /\ WF_vars(background_cleanup_task)
    /\ WF_vars(WorkersEnded /\ Tick)

(***************************************************************************)
(* The Chunker on its own: every buffer, rate and duration of the bounds.  *)
(***************************************************************************)
ChunkerInit ==
    /\ InitSessions
    /\ cf = IdleStitcher
    /\ pv = IdlePitch
    /\ ml = NoLoader
    /\ \E audio \in SeqsUpTo(Samples, MaxAudioLen), rate \in 1..MaxRate,
          dur \in 1..MaxDur :
            ck = [IdleChunker EXCEPT !.pc = "call", !.audio = audio,
                                     !.rate = rate, !.dur = dur]

chunker_call ==
    /\ ck.pc = "call"
    /\ ck' = [ck EXCEPT !.pc = "returned",
                        !.res = split_audio_into_chunks(ck.audio, ck.rate,
                                                        ck.dur)]
    /\ UNCHANGED <<now, SESSIONS, created, dirs, files, uploads, wk, sw, cl,
                   rd, resp, cf, pv, ml>>

ChunkerNext == chunker_call

ChunkerSpec == ChunkerInit /\ [][ChunkerNext]_vars

(***************************************************************************)
(* One session and its worker, with every result the collaborators may     *)
(* give, and delete-session beside it: the pipeline without its readers.   *)
(***************************************************************************)
(***************************************************************************)
(* Two sessions at once, each a one-window upload or a stream, and their   *)
(* two worker threads; the collaborator returns one stem.                  *)
(***************************************************************************)
PairWorkerStep(s) ==
    \/ W_load(s, TRUE)
    \/ \E data \in BOOLEAN : W_fetch(s, data)
    \/ W_separate(s, TRUE, {"vocals"})
    \/ W_loop_end(s)
    \/ W_stems_add(s)
    \/ \E ok \in BOOLEAN : W_write(s, ok)
    \/ W_ready_add(s)
    \/ \E ok \in BOOLEAN : W_stitch(s, ok)
    \/ W_set_total(s)
    \/ W_set_done(s)
    \/ W_except(s)
    \/ W_finally(s)

PairNext ==
    \/ \E s \in SessionIds : upload_audio(s, CHUNK_DURATION * UploadRate)
    \/ \E s \in SessionIds : yt_start_session(s, TRUE)
    \/ \E s \in SessionIds : PairWorkerStep(s)

PairSpec == Init /\ [][PairNext]_vars

WorkerNext ==
    \/ \E s \in PipelineIds, len \in UploadLens : upload_audio(s, len)
    \/ \E s \in PipelineIds : upload_audio_unreadable(s)
    \/ \E s \in PipelineIds, url \in BOOLEAN : yt_start_session(s, url)
    \/ \E s \in PipelineIds : WorkerStep(s)
    \/ \E s \in PipelineIds : cleanup_session(s)
    \/ CleanerStep("req")

WorkerSpec == Init /\ [][WorkerNext]_vars

(***************************************************************************)
(* The Stitcher on its own: up to MaxParts windows of up to MaxWinLen      *)
(* samples, at the sample rates that give the fade lengths 1..MaxFadeLen.  *)
(***************************************************************************)
\* A window that rises from base, and one that falls from it.
Rising(len, base) == [k \in 1..len |-> base + (k - 1)]

Falling(len, base) == [k \in 1..len |-> base - (k - 1)]

StitcherWindows ==
    UNION {{Rising(len, INT16_MIN), Rising(len, -2), Falling(len, INT16_MAX)} :
            len \in 0..MaxWinLen}

StitcherRates == {50 * n : n \in 1..(2 * MaxFadeLen + 1)}

\* Two silent windows of 100 samples each.
Silent(len) == [k \in 1..len |-> 0]

SilentPair == <<Silent(100), Silent(100)>>

\* Two windows of MaxWinLen samples that are all at half of full scale.
Level(len) == [k \in 1..len |-> 16384]

LevelPair == <<Level(MaxWinLen), Level(MaxWinLen)>>

StitcherInit ==
    /\ InitSessions
    /\ ck = IdleChunker
    /\ pv = IdlePitch
    /\ ml = NoLoader
    /\ \E parts \in SeqsUpTo(StitcherWindows, MaxParts)
                        \cup {SilentPair, LevelPair},
          rate \in StitcherRates :
            cf = [pc |-> "call", parts |-> parts, rate |-> rate,
                  out |-> <<>>]

\* stitched = crossfade_concat(buf, sample_rate, fade_ms=10.0)
stitcher_call ==
    /\ cf.pc = "call"
    /\ cf' = [cf EXCEPT !.pc = "returned",
                        !.out = crossfade_concat(cf.parts, cf.rate, FADE_MS)]
    /\ UNCHANGED <<now, SESSIONS, created, dirs, files, uploads, wk, sw, cl,
                   rd, resp, ck, pv, ml>>

\* The result, handed to crossfade_concat once more as a list of one window.
stitcher_again ==
    /\ cf.pc = "returned"
    /\ cf' = [cf EXCEPT !.pc = "again",
                        !.parts = <<cf.out>>,
                        !.out = crossfade_concat(<<cf.out>>, cf.rate, FADE_MS)]
    /\ UNCHANGED <<now, SESSIONS, created, dirs, files, uploads, wk, sw, cl,
                   rd, resp, ck, pv, ml>>

StitcherNext == stitcher_call \/ stitcher_again

StitcherSpec == StitcherInit /\ [][StitcherNext]_vars

(***************************************************************************)
(* The pitch preview on its own: tracks of up to MaxAudioLen samples, all  *)
(* different, every rate up to MaxRate, shifts on both sides of the        *)
(* threshold, and every outcome of ffmpeg.                                 *)
(***************************************************************************)
PitchTrack(len) == [k \in 1..len |-> k]

\* One semitone down and up, the threshold itself, and below it.
PitchShifts == {-SemiDen, -2, -1, 0, 1, 2, SemiDen}

PitchStarts == {-1, 0, 1, MaxDur}

PitchDurs == {0, 1, MaxDur}

PitchInit ==
    /\ InitSessions
    /\ ck = IdleChunker
    /\ cf = IdleStitcher
    /\ ml = NoLoader
    /\ \E len \in 0..MaxAudioLen, sr \in 1..MaxRate,
          semitones \in PitchShifts, start_s \in PitchStarts,
          dur_s \in PitchDurs :
            pv = [pc |-> "call", audio |-> PitchTrack(len), sr |-> sr,
                  semitones |-> semitones, start_s |-> start_s,
                  dur_s |-> dur_s, toolCalled |-> FALSE,
                  \* history: ffmpeg was run by the last call and failed
                  toolFailed |-> FALSE, out |-> NoBytes,
                  semitones1 |-> semitones, first |-> NoBytes]

\* wav_bytes = pitch_shift_preview(audio_data, sample_rate, semitones,
\*                                 start_s=start_for_file, dur_s=dur_s)
pitch_call ==
    /\ pv.pc = "call"
    /\ \E tool \in ToolOutcomes :
          LET r == pitch_shift_preview(pv.audio, pv.sr, pv.semitones,
                                       pv.start_s, pv.dur_s, tool)
          IN  pv' = [pv EXCEPT !.pc = "returned", !.out = r.bytes,
                               !.toolCalled = r.toolCalled,
                               !.toolFailed = r.toolCalled /\ ~tool.ok]
    /\ UNCHANGED <<now, SESSIONS, created, dirs, files, uploads, wk, sw, cl,
                   rd, resp, ck, cf, ml>>

\* A second request for the same track, start and duration.
pitch_again ==
    /\ pv.pc = "returned"
    /\ \E semitones \in PitchShifts, tool \in ToolOutcomes :
          LET r == pitch_shift_preview(pv.audio, pv.sr, semitones,
                                       pv.start_s, pv.dur_s, tool)
          IN  pv' = [pv EXCEPT !.pc = "again", !.semitones = semitones,
                               !.out = r.bytes,
                               !.toolCalled = r.toolCalled,
                               !.toolFailed = r.toolCalled /\ ~tool.ok,
                               !.semitones1 = pv.semitones,
                               !.first = pv.out]
    /\ UNCHANGED <<now, SESSIONS, created, dirs, files, uploads, wk, sw, cl,
                   rd, resp, ck, cf, ml>>

PitchNext == pitch_call \/ pitch_again

PitchSpec == PitchInit /\ [][PitchNext]_vars

(***************************************************************************)
(* load_model_safe: the worker threads that call it at once, the global    *)
(* `model` and model_lock. A model instance is named by the number of the  *)
(* load_model call that made it; 0 is None.                                *)
(***************************************************************************)
\* The worker threads that start at once.
MaxLoaders == 4
Loaders == 1..MaxLoaders

LoaderInit ==
    /\ InitSessions
    /\ ck = IdleChunker
    /\ cf = IdleStitcher
    /\ pv = IdlePitch
    /\ ml = [pc |-> "run", model |-> 0, model_lock |-> 0,
             at |-> [t \in Loaders |-> "idle"],
             got |-> [t \in Loaders |-> 0],
             \* history: the calls of load_model, those that returned, and
             \* whether the last one raised
             loads |-> 0, loaded |-> 0, lastFailed |-> FALSE]

\* The lock is not taken.
L_enter_unlocked(t) ==
    /\ ml.pc = "run"
    /\ ml.at[t] = "idle"
    /\ ml' = [ml EXCEPT !.at[t] = "check"]
    /\ UNCHANGED <<now, SESSIONS, created, dirs, files, uploads, wk, sw, cl,
                   rd, resp, ck, cf, pv>>

\* with model_lock: the thread blocks until the lock is free and takes it.
L_enter(t) ==
    /\ ml.pc = "run"
    /\ ml.at[t] = "idle"
    /\ ml.model_lock = 0
    /\ ml' = [ml EXCEPT !.at[t] = "check", !.model_lock = t]
    /\ UNCHANGED <<now, SESSIONS, created, dirs, files, uploads, wk, sw, cl,
                   rd, resp, ck, cf, pv>>

\* if model is None:
L_check(t) ==
    /\ ml.pc = "run"
    /\ ml.at[t] = "check"
    /\ ml' = [ml EXCEPT !.at[t] = IF ml.model = 0 THEN "load" ELSE "return"]
    /\ UNCHANGED <<now, SESSIONS, created, dirs, files, uploads, wk, sw, cl,
                   rd, resp, ck, cf, pv>>

\* model = load_model('htdemucs'): a new instance is assigned, or the call
\* raises, the with statement releases the lock and the exception leaves
\* load_model_safe with `model` as it was.
L_load(t, ok) ==
    /\ ml.pc = "run"
    /\ ml.at[t] = "load"
    /\ ml' = IF ok
             THEN [ml EXCEPT !.at[t] = "return",
                             !.model = ml.loads + 1,
                             !.loads = @ + 1, !.loaded = @ + 1,
                             !.lastFailed = FALSE]
             ELSE [ml EXCEPT !.at[t] = "raised",
                             !.model_lock = 0,
                             !.loads = @ + 1,
                             !.lastFailed = TRUE]
    /\ UNCHANGED <<now, SESSIONS, created, dirs, files, uploads, wk, sw, cl,
                   rd, resp, ck, cf, pv>>

\* return model: the caller gets the global's value and the with statement
\* releases the lock.
L_return(t) ==
    /\ ml.pc = "run"
    /\ ml.at[t] = "return"
    /\ ml' = [ml EXCEPT !.at[t] = "returned", !.got[t] = ml.model,
                        !.model_lock = 0]
    /\ UNCHANGED <<now, SESSIONS, created, dirs, files, uploads, wk, sw, cl,
                   rd, resp, ck, cf, pv>>

load_model_safe(t) ==
    \/ L_enter(t)
    \/ L_check(t)
    \/ \E ok \in BOOLEAN : L_load(t, ok)
    \/ L_return(t)

LoaderNext == \E t \in Loaders : load_model_safe(t)

LoaderSpec == LoaderInit /\ [][LoaderNext]_vars

(***************************************************************************)
(* The claims.                                                             *)
(***************************************************************************)
Ready(s) == SESSIONS[s].ready

\* The (index, stem) pairs of the readiness sets of session s.
ReadyPairs(s) == {<<i, stem>> \in (0..MaxChunks) \X Stems :
                    stem \in DOMAIN Ready(s) /\ i \in Ready(s)[stem]}

\* A cleanup of session s is under way.
CleanupRunning(s) == \E c \in Cleaners : cl[c].pc # "idle" /\ cl[c].sid = s

\* The spec's scenario: 12.0 s at 44.1 kHz with chunk_duration = 5.0 s.
Scenario12s ==
    split_audio_into_chunks(Ramp(12 * 44100), 44100, 5 * DurDen).chunks

\* C1: with chunk_samples = int(sample_rate * chunk_duration) >= 1 the
\* Chunker returns floor(L / chunk_samples) windows, window k being the
\* samples [k * chunk_samples, (k + 1) * chunk_samples) of the buffer, so
\* every window is chunk_samples long and the remainder is in none; 12 s
\* at 44100 Hz with 5 s windows give 2 windows.
C1_ChunkerWindows ==
    /\ Len(Scenario12s) = 2
    /\ (ck.pc = "returned" /\ chunk_samples_of(ck.rate, ck.dur) >= 1) =>
        LET cs == chunk_samples_of(ck.rate, ck.dur)
            L == Len(ck.audio)
        IN  /\ ck.res.ok
            /\ Len(ck.res.chunks) = L \div cs
            /\ \A k \in 1..Len(ck.res.chunks) :
                    /\ Len(ck.res.chunks[k]) = cs
                    /\ \A j \in 1..cs :
                            ck.res.chunks[k][j] = ck.audio[(k - 1) * cs + j]

\* Two windows were returned and a remainder was dropped.
C1_Witness ==
    /\ ck.pc = "returned"
    /\ Len(ck.res.chunks) = 2
    /\ Len(ck.audio) > 2 * chunk_samples_of(ck.rate, ck.dur)

\* C2: from one state to the next, every readiness set of a session that
\* stays registered keeps every index it had, whichever thread took the
\* step.
C2_ReadinessNeverShrinks ==
    [][\A s \in Registered \cap Registered' :
            \A stem \in DOMAIN SESSIONS[s].ready :
                /\ stem \in DOMAIN SESSIONS'[s].ready
                /\ SESSIONS[s].ready[stem] \subseteq SESSIONS'[s].ready[stem]
      ]_vars

\* A readiness set has grown twice and a cleanup of the session has begun.
C2_Witness ==
    \E s \in Registered :
        /\ \E stem \in DOMAIN Ready(s) : Cardinality(Ready(s)[stem]) >= 2
        /\ CleanupRunning(s)

\* C3: whenever done is true, the readiness set of every discovered stem
\* is {0, ..., total_chunks - 1}, whatever maps the collaborator returned.
C3_DoneMeansAllReady ==
    \A s \in Registered :
        SESSIONS[s].done =>
            \A stem \in SESSIONS[s].stems :
                /\ stem \in DOMAIN Ready(s)
                /\ Ready(s)[stem] = 0..(SESSIONS[s].total_chunks - 1)

\* The indices 0, 1, ..., n - 1 in order.
UpTo(n) == [k \in 1..n |-> k - 1]

\* The remote worker of s got the sentinel (at index W(s).sentinel) and no
\* separation or persistence step failed.
SentinelNoFailure(s) ==
    /\ W(s).kind = "remote"
    /\ W(s).sentinel >= 0
    /\ ~W(s).failed

\* C4: in a remote session whose fetcher returns the sentinel at index k
\* after data for 0..k-1, with no separation or persistence failure, the
\* worker requests the windows 0..k and none after, total_chunks ends
\* equal to k, and the session reaches done = true.
C4_SentinelSettlesTotal ==
    /\ [](\A s \in PipelineIds :
            SentinelNoFailure(s) =>
                /\ W(s).fetched = UpTo(W(s).sentinel + 1)
                /\ W(s).calls = UpTo(W(s).sentinel)
                /\ W(s).pc \in {"stitch", "set_done", "ended"}
                /\ W(s).pc = "ended" =>
                        /\ SESSIONS[s].done
                        /\ SESSIONS[s].total_chunks = W(s).sentinel
                /\ SESSIONS[s].done =>
                        SESSIONS[s].total_chunks = W(s).sentinel)
    /\ \A s \in PipelineIds :
            (W(s).kind = "remote" /\ W(s).url) ~>
                (W(s).failed \/ W(s).exc # "None" \/
                    (W(s).sentinel >= 0 /\ SESSIONS[s].done))

\* Data at 0 .. MaxChunks - 1, the sentinel at MaxChunks, and done.
C4_Witness ==
    \E s \in Registered :
        /\ SentinelNoFailure(s)
        /\ W(s).sentinel = MaxChunks
        /\ SESSIONS[s].done
        /\ SESSIONS[s].total_chunks = MaxChunks
        /\ SESSIONS[s].stems # {}

\* The worker of s is past its exception handler.
Ended(s) == W(s).pc \in {"finally", "ended", "crashed"}

\* C5: once a separation call or a write of an artifact has failed, the
\* worker calls the collaborator no more, adds no index to a readiness set
\* and never sets done; when it has ended, the message of that failure is
\* the error of the session (if the session is still registered).
C5_FailFast ==
    [][\A s \in SessionIds :
            W(s).failed =>
                /\ W(s)'.calls = W(s).calls
                /\ W(s)'.failed
                /\ W(s)'.exc = W(s).exc
                /\ (s \in Registered /\ s \in Registered') =>
                        /\ SESSIONS'[s].ready = SESSIONS[s].ready
                        /\ ~SESSIONS'[s].done
                /\ (Ended(s) /\ s \in Registered /\ ~W(s).crash) =>
                        /\ SESSIONS[s].error = W(s).exc
                        /\ SESSIONS[s].error # "None"
      ]_vars

\* A worker failed on its second chunk and has ended with the error set.
C5_Witness ==
    \E s \in Registered :
        /\ W(s).failed
        /\ W(s).pc = "ended"
        /\ Len(W(s).calls) >= 2
        /\ SESSIONS[s].error # "None"

\* The worker of s has ended in ERROR and no cleanup of s has begun.
EndedInError(s) ==
    /\ s \in Registered
    /\ W(s).pc = "ended"
    /\ SESSIONS[s].error # "None"
    /\ ~CleanupRunning(s)

\* What get-status answers when no thread writes the record meanwhile.
QuietStatus(s) ==
    [stem \in DOMAIN Ready(s) |-> sorted(Ready(s)[stem])]

\* C6: after the worker ended in ERROR and until a cleanup of the session
\* begins, every chunk artifact of the readiness sets is in storage, is
\* served by get-artifact, and its index is in what get-status reports.
C6_ReadyServedAfterError ==
    \A s \in SessionIds :
        EndedInError(s) =>
            /\ \A p \in ReadyPairs(s) :
                    /\ ChunkFile(p[1], p[2]) \in files[s]
                    /\ Served(s, ChunkFile(p[1], p[2]))
                    /\ p[1] \in Range(QuietStatus(s)[p[2]])
            /\ (resp.kind = "audio" /\ resp.sid = s
                    /\ \E p \in ReadyPairs(s) : resp.file = ChunkFile(p[1], p[2]))
                    => resp.code = 200

\* A worker ended in ERROR with a chunk ready, and the artifact was served.
C6_Witness ==
    \E s \in SessionIds :
        /\ EndedInError(s)
        /\ ReadyPairs(s) # {}
        /\ resp.kind = "audio" /\ resp.code = 200
        /\ \E p \in ReadyPairs(s) : resp.file = ChunkFile(p[1], p[2])

\* What a step leaves of session s: its record, its folder and its files.
Untouched(s) ==
    /\ s \in Registered'
    /\ SESSIONS'[s] = SESSIONS[s]
    /\ dirs'[s] = dirs[s]
    /\ files'[s] = files[s]
    /\ (s \in uploads) = (s \in uploads')

\* C7: a sweep with cutoff T - R unregisters only sessions created
\* strictly before the cutoff, leaves every session created at or after it
\* (record, readiness, folder, files) as it was, and when it finishes, no
\* session that was registered when it began and was created before the
\* cutoff is registered.
C7_SweepRemovesExactlyExpired ==
    [][/\ SweepStep =>
            \A s \in Registered :
                SESSIONS[s].created_at >= sw'.cutoff => Untouched(s)
       /\ \A s \in Registered \ Registered' :
                SESSIONS[s].created_at < sw.cutoff
       /\ (sw.pc # "finished" /\ sw'.pc = "finished") =>
            \A s \in sw.atStart :
                Born(s) < sw.cutoff => s \notin Registered'
      ]_vars

\* A finished sweep removed a session and kept one created exactly at the
\* cutoff, with its artifacts.
C7_Witness ==
    /\ sw.pc = "finished"
    /\ sw.atStart \ Registered # {}
    /\ \E s \in Registered \cap sw.atStart :
            /\ SESSIONS[s].created_at = sw.cutoff
            /\ files[s] # {}
            /\ Ready(s) # <<>>

\* C8: once a session is deleted its registry entry is never re-created
\* and its worker produces no further output.
C8_NoOutputAfterDelete ==
    [][\A s \in Used :
            s \notin Registered =>
                /\ s \notin Registered'
                /\ files'[s] \subseteq files[s]
      ]_vars

\* C9: once the cleanup of a session has finished (its registry entry is
\* gone), no artifact of the session is in storage.
C9_NoArtifactAfterCleanup ==
    \A s \in Used \ Registered : files[s] = {}

IsSorted(q) == \A a, b \in DOMAIN q : a < b => q[a] < q[b]

\* C10: a get-status request that found the session registered answers
\* (it does not fail), and the ready lists of the answer are ascending.
C10_StatusAlwaysAnswers ==
    (resp.kind = "status" /\ resp.code # 404) =>
        /\ resp.code = 200
        /\ \A stem \in DOMAIN resp.ready : IsSorted(resp.ready[stem])

\* The last step was a request that met one of the not-found situations:
\* get-status or get-pitch-preview for an id that is not registered,
\* get-artifact for a file that is not there, get-pitch-preview for a
\* registered session whose folder holds no artifact.
NotFoundSituation ==
    \/ resp.kind \in {"status", "preview"} /\ resp.sid \notin Registered
    \/ resp.kind = "audio" /\ ~Served(resp.sid, resp.file)
    \/ /\ resp.kind = "preview"
       /\ resp.sid \in Registered
       /\ dirs[resp.sid]
       /\ files[resp.sid] = {}

\* C11: each of the not-found situations answers with the same not-found
\* outcome (HTTP 404).
C11_NotFoundUniform == NotFoundSituation => resp.code = 404

\* C12: when the fetch of a window in the middle of a remote session
\* (after at least one window was separated) failed to decode, the worker
\* ends with the error of the session set and done = false, as get-status
\* then reports.
C12_DecodeFailureRecorded ==
    /\ \A s \in Registered :
            (W(s).decodeErr /\ Len(W(s).calls) >= 1 /\ W(s).pc = "ended") =>
                /\ SESSIONS[s].error # "None"
                /\ ~SESSIONS[s].done
    /\ (/\ resp.kind = "status" /\ resp.code = 200
        /\ W(resp.sid).decodeErr /\ Len(W(resp.sid).calls) >= 1
        /\ W(resp.sid).pc = "ended") =>
            /\ resp.error # "None"
            /\ ~resp.done

\* C13: a session is registered and a worker started only for a readable
\* source: a create-session request whose source is unreadable (the upload
\* cannot be decoded, or no audio stream was resolved) answers with an
\* error, registers nothing and starts no worker.
C13_UnreadableSourceRejected ==
    /\ \A s \in SessionIds :
            (W(s).kind = "remote" /\ ~W(s).url) =>
                /\ s \notin Used
                /\ W(s).pc = "none"
    /\ (resp.kind = "create" /\ resp.code = 200 /\ W(resp.sid).kind = "remote")
            => W(resp.sid).url
    /\ (resp.kind = "create" /\ resp.code # 200) =>
            /\ resp.sid \notin Used
            /\ W(resp.sid).pc = "none"

\* C14: every delete-session request is answered with the acknowledgement
\* (HTTP 200), and when it answers the session is not registered.
C14_DeleteAlwaysAcknowledges ==
    resp.kind = "cleanup" =>
        /\ resp.code = 200
        /\ resp.sid \notin Registered

\* Cleaner c takes the step of os.rmdir, and it raises: the folder is not
\* empty, or gone.
RmdirFails(c) ==
    /\ cl[c].pc = "rmdir"
    /\ cl'[c] # cl[c]
    /\ ~(dirs[cl[c].sid] /\ files[cl[c].sid] = {})

\* The call of cleanup_session_files by cleaner c, in which a removal
\* failed, ends with this step.
FailedCleanupEnds(c) ==
    /\ cl[c].fsErr
    /\ cl[c].pc \in {"chk", "del"}
    /\ cl'[c].pc \notin {"chk", "del"}

\* The step is `del SESSIONS[session_id]` raising KeyError: another
\* cleanup removed the entry after `if session_id in SESSIONS`.
DelRaises(c) == cl[c].pc = "del" /\ cl[c].sid \notin Registered

\* C15: a failing removal in cleanup_session_files is swallowed: the call
\* goes on to the registry step, and when it ends the entry of the
\* session is gone, delete-session answers 200, and the sweep starts the
\* cleanup of the next expired session (or finishes when none is left);
\* the only other ending is the KeyError of a del that lost a race with
\* another cleanup, which no filesystem failure causes.
C15_CleanupFailureSwallowed ==
    [][/\ \A c \in Cleaners :
            RmdirFails(c) =>
                /\ cl'[c].pc = "chk"
                /\ cl'[c].fsErr
                /\ cl'[c].sid = cl[c].sid
                /\ resp'.kind # "cleanup"
                /\ sw' = sw
       /\ FailedCleanupEnds("req") =>
            /\ cl["req"].sid \notin Registered'
            /\ resp'.kind = "cleanup"
            /\ resp'.code = IF DelRaises("req") THEN 500 ELSE 200
       /\ FailedCleanupEnds("sweep") =>
            /\ cl["sweep"].sid \notin Registered'
            /\ IF DelRaises("sweep") THEN sw'.pc = "aborted"
               ELSE IF sw.todo = <<>> THEN sw'.pc = "finished"
               ELSE /\ sw'.pc = "clean"
                    /\ cl'["sweep"] = StartCleaner(Head(sw.todo))
      ]_vars

\* A delete-session request that met a failing removal was acknowledged,
\* while a sweep that met one on its first session is cleaning its second.
C15_Witness ==
    /\ resp.kind = "cleanup" /\ resp.code = 200 /\ resp.fsErr
    /\ sw.pc = "clean"
    /\ sw.failedOn # {}
    /\ cl["sweep"].sid \notin sw.failedOn
    /\ sw.failedOn \cap Registered = {}

\* Session s is registered and older than the retention threshold.
BeyondRetention(s) ==
    /\ s \in Registered
    /\ now - SESSIONS[s].created_at > Retention

\* C16: in the served application, with no delete-session request, every
\* session that is registered beyond the retention threshold is eventually
\* removed, registry entry and artifacts.
C16_ExpiredEventuallyRemoved ==
    \A s \in SessionIds :
        BeyondRetention(s) ~> (s \notin Registered /\ ~dirs[s])

\* C17: two windows that are both longer than fade_len are stitched into
\* len(A) + len(B) - fade_len samples, and two windows that are both shorter
\* than fade_len into len(A) + len(B) samples; two silent windows of 100
\* samples at sample_rate 100 and fade_ms 10 give 199 samples.
C17_StitchedLength ==
    /\ (cf.pc = "returned" /\ Len(cf.parts) = 2) =>
          LET A == cf.parts[1]
              B == cf.parts[2]
              fl == fade_len_of(cf.rate, FADE_MS)
          IN  /\ (Len(A) > fl /\ Len(B) > fl) =>
                    Len(cf.out) = Len(A) + Len(B) - fl
              /\ (Len(A) < fl /\ Len(B) < fl) =>
                    Len(cf.out) = Len(A) + Len(B)
    /\ fade_len_of(100, FADE_MS) = 1
    /\ (cf.pc = "returned" /\ cf.parts = SilentPair /\ cf.rate = 100) =>
          Len(cf.out) = 199

C17_Witness ==
    /\ cf.pc = "returned"
    /\ cf.parts = SilentPair
    /\ cf.rate = 100
    /\ Len(cf.out) = 199

\* C18: a list of one window comes back sample for sample, an empty list
\* gives a result of no samples, and stitching a result once more as a list
\* of one window changes nothing.
C18_OneWindowUnchanged ==
    /\ (cf.pc = "returned" /\ Len(cf.parts) = 1) => cf.out = cf.parts[1]
    /\ (cf.pc = "returned" /\ cf.parts = <<>>) => cf.out = <<>>
    /\ cf.pc = "again" => cf.out = cf.parts[1]

C18_Witness ==
    /\ cf.pc = "again"
    /\ cf.out = Falling(MaxWinLen, INT16_MAX)

\* C19: every sample of a stitched result is an integer between -32768 and
\* 32767, in the overlaps as elsewhere.
C19_OutputInRange ==
    cf.pc \in {"returned", "again"} =>
        \A k \in 1..Len(cf.out) : cf.out[k] \in INT16_MIN..INT16_MAX

\* Two windows at the two ends of the range, mixed half and half.
C19_Witness ==
    /\ cf.pc = "returned"
    /\ fade_len_of(cf.rate, FADE_MS) = 3
    /\ cf.parts = <<Falling(4, INT16_MAX), Rising(4, INT16_MIN)>>
    /\ Len(cf.out) = 5
    /\ cf.out[3] \in INT16_MIN..INT16_MAX

\* The shift is less than 1e-6 semitones in absolute value.
ShiftBelowMillionth(semitones) == Abs(semitones) < SemiDen \div 1000000

\* C20: a request whose shift is below a millionth of a semitone in
\* absolute value does not run the pitch-shift tool and is answered with
\* the encoding of the samples n0 to n1 of the track, and two such requests
\* for the same track, start and duration get the same bytes.
C20_ZeroShiftIdentity ==
    /\ (pv.pc \in {"returned", "again"}
            /\ ShiftBelowMillionth(pv.semitones)) =>
          /\ ~pv.toolCalled
          /\ pv.out =
                WavBytes(SubSeq(pv.audio, n0_of(pv.start_s, pv.sr) + 1,
                                n1_of(pv.audio, pv.sr, pv.start_s, pv.dur_s)),
                         pv.sr)
    /\ (pv.pc = "again" /\ ShiftBelowMillionth(pv.semitones)
            /\ ShiftBelowMillionth(pv.semitones1)) =>
          pv.out = pv.first

\* A shift of half a millionth, then one of the other sign, for a range
\* that lies inside the track.
C20_Witness ==
    /\ pv.pc = "again"
    /\ pv.semitones1 = 1
    /\ pv.semitones = -1
    /\ pv.out = pv.first
    /\ pv.out.frames > 0
    /\ pv.out.frames < Len(pv.audio)
    /\ n0_of(pv.start_s, pv.sr) > 0

\* int(dur_s * sr), the sample count the request asks for.
RequestedCount == TruncDiv(pv.dur_s * pv.sr, DurDen)

PitchReturned == pv.pc \in {"returned", "again"}

\* C21 as stated: for a shift that is not zero the preview has exactly
\* int(duration * sample_rate) samples, whatever the tool returned, also
\* when the requested window runs past the end of the track.
C21_RequestedCountAlways ==
    (PitchReturned /\ ~ShiftBelowMillionth(pv.semitones)) =>
        pv.out.frames = RequestedCount

\* C21 as amended: for a shift that is not zero the preview has exactly as
\* many samples as the extracted range n0 to n1, whatever the tool returned;
\* that is int(duration * sample_rate) when the requested window ends inside
\* the track, and never more.
C21_ExtractedCount ==
    (PitchReturned /\ ~ShiftBelowMillionth(pv.semitones)) =>
        LET n0 == n0_of(pv.start_s, pv.sr)
            n1 == n1_of(pv.audio, pv.sr, pv.start_s, pv.dur_s)
        IN  /\ pv.out.frames = Max(0, n1 - n0)
            /\ Len(pv.out.data) = pv.out.frames
            /\ n0 + RequestedCount <= Len(pv.audio) =>
                  pv.out.frames = RequestedCount
            /\ pv.out.frames <= RequestedCount

\* The tool wrote one sample too few and the preview was padded with a zero.
C21_Witness ==
    /\ pv.pc = "returned"
    /\ pv.semitones = SemiDen
    /\ pv.toolCalled
    /\ pv.out.frames = RequestedCount
    /\ pv.out.frames >= 2
    /\ pv.out.data[1] = -1
    /\ pv.out.data[pv.out.frames] = 0

\* The chunks for which stem was written, made ready and buffered.
Handled(w, stem) ==
    IF stem \in DOMAIN w.bufParts THEN Range(w.bufParts[stem]) ELSE {}

\* C22: the worker of a session hands the chunks to the separation in the
\* order 0, 1, 2, ..., none skipped and none repeated, and hands over a
\* chunk only when every stem the separation returned for the chunk before
\* it was written and made ready: the only thread that separates for the
\* session is then at the head of its loop, between two calls.
C22_ChunksInOrder ==
    [][\A s \in SessionIds :
        wk'[s].calls # wk[s].calls =>
            /\ wk'[s].calls = Append(wk[s].calls, Len(wk[s].calls))
            /\ Len(wk'[s].outs) = Len(wk'[s].calls)
            /\ wk[s].pc = "sep"
            /\ wk[s].cur = <<>>
            /\ \A k \in 1..Len(wk[s].calls) :
                  \A stem \in wk[s].outs[k] :
                      wk[s].calls[k] \in Handled(wk[s], stem)]_vars

C22_Witness ==
    \E s \in SessionIds :
        /\ wk[s].calls = <<0, 1>>
        /\ wk[s].outs[1] = Stems
        /\ wk[s].kind = "local"

IsDone(S, s) == s \in DOMAIN S /\ S[s].done

\* The strictly increasing sequences.
Increasing(q) == \A j, k \in 1..Len(q) : j < k => q[j] < q[k]

\* C23: done becomes true only when, for every discovered stem, the full
\* track was persisted, by exactly one stitch over that stem's chunk
\* outputs in increasing index order; a remote session has by then its
\* total_chunks, the number of windows separated; and no done follows a
\* failed separation, write or stitch.
C23_DoneAfterStitch ==
    [][\A s \in SessionIds :
        (IsDone(SESSIONS', s) /\ ~IsDone(SESSIONS, s)) =>
            /\ \A stem \in SESSIONS'[s].stems :
                  /\ Cardinality({k \in 1..Len(wk[s].stitched) :
                                    wk[s].stitched[k].stem = stem}) = 1
                  /\ \E k \in 1..Len(wk[s].stitched) :
                        /\ wk[s].stitched[k].stem = stem
                        /\ wk[s].stitched[k].parts = wk[s].bufParts[stem]
                        /\ Increasing(wk[s].stitched[k].parts)
                        /\ Range(wk[s].stitched[k].parts)
                              = {i \in Range(wk[s].calls) :
                                    stem \in wk[s].outs[i + 1]}
            /\ wk[s].kind = "remote" =>
                  /\ SESSIONS[s].total_chunks = Len(wk[s].calls)
                  /\ SESSIONS'[s].total_chunks = Len(wk[s].calls)
            /\ ~wk[s].failed]_vars

\* Once a step of the worker has failed, done is never true.
C23_NoDoneAfterFailure ==
    \A s \in Registered : wk[s].failed => ~SESSIONS[s].done

C23_Done ==
    /\ C23_DoneAfterStitch
    /\ []C23_NoDoneAfterFailure

\* Two windows, both stems from each, both stitched, the session done.
C23_Witness ==
    \E s \in Registered :
        /\ SESSIONS[s].done
        /\ SESSIONS[s].stems = Stems
        /\ Len(wk[s].stitched) = 2
        /\ wk[s].stitched[1].parts = <<0, 1>>
        /\ wk[s].kind = "remote"
        /\ SESSIONS[s].total_chunks = 2

HasError(S, s) == S[s].error # "None"

\* C24: a session is registered with done false, no error, nothing ready
\* and no stem discovered; while it is registered, done and an error are
\* never both set, done stays true once true, and a recorded error is
\* neither cleared nor replaced.
C24_Lifecycle ==
    [][\A s \in SessionIds :
        /\ (s \notin Registered /\ s \in DOMAIN SESSIONS') =>
              /\ ~SESSIONS'[s].done
              /\ SESSIONS'[s].error = "None"
              /\ SESSIONS'[s].ready = <<>>
              /\ SESSIONS'[s].stems = {}
        /\ s \in DOMAIN SESSIONS' =>
              ~(SESSIONS'[s].done /\ HasError(SESSIONS', s))
        /\ (s \in Registered /\ s \in DOMAIN SESSIONS') =>
              /\ SESSIONS[s].done => SESSIONS'[s].done
              /\ HasError(SESSIONS, s) =>
                    SESSIONS'[s].error = SESSIONS[s].error]_vars

\* An error recorded after a window was made ready, the worker over.
C24_Witness ==
    \E s \in Registered :
        /\ HasError(SESSIONS, s)
        /\ ~SESSIONS[s].done
        /\ SESSIONS[s].ready # <<>>
        /\ wk[s].pc = "ended"

\* C25: the total_chunks of a local session is the number of windows the
\* Chunker emitted and the number create-session answered, and never
\* changes; that of a remote session is 0 from its creation until the
\* worker writes it, which it does at most once and with the number of
\* windows it separated, and it does not change once done is true.
C25_TotalChunks ==
    /\ [](\A s \in Registered :
            /\ SESSIONS[s].kind = "local" =>
                  SESSIONS[s].total_chunks = wk[s].n
            /\ SESSIONS[s].kind = "remote" =>
                  /\ Len(wk[s].totals) <= 1
                  /\ wk[s].totals = <<>> => SESSIONS[s].total_chunks = 0
                  /\ wk[s].totals # <<>> =>
                        /\ SESSIONS[s].total_chunks = wk[s].totals[1]
                        /\ wk[s].totals[1] = Len(wk[s].calls))
    /\ [][\A s \in SessionIds :
            /\ (s \notin Registered /\ s \in DOMAIN SESSIONS') =>
                  /\ resp'.kind = "create"
                  /\ resp'.total_chunks = SESSIONS'[s].total_chunks
                  /\ SESSIONS'[s].kind = "remote" =>
                        SESSIONS'[s].total_chunks = 0
            /\ (s \in Registered /\ s \in DOMAIN SESSIONS'
                    /\ (SESSIONS[s].kind = "local" \/ SESSIONS[s].done)) =>
                  SESSIONS'[s].total_chunks = SESSIONS[s].total_chunks]_vars

\* A remote session that is done, with the two windows it separated.
C25_Witness ==
    \E s \in Registered :
        /\ SESSIONS[s].kind = "remote"
        /\ SESSIONS[s].done
        /\ wk[s].totals = <<2>>
        /\ SESSIONS[s].total_chunks = 2

WorkerOver(s) == wk[s].pc \in {"ended", "crashed"}

\* C26: once the worker of a local session is over, however it ended, the
\* uploaded file does not exist; a file that was removed does not come back,
\* so that it is removed at most once; and the removal of the worker finds
\* the file or finds it gone and ends the thread the same way, as the
\* cleanup goes on to its next statement whether the file was there or not.
C26_UploadReleased ==
    /\ [](\A s \in SessionIds :
            (wk[s].kind = "local" /\ WorkerOver(s)) =>
                /\ s \notin uploads
                /\ wk[s].removal \in {"removed", "already gone"})
    /\ [][\A s \in SessionIds :
            /\ (wk[s].kind = "local" /\ s \notin uploads) =>
                  s \notin uploads'
            /\ wk[s].pc = "finally" =>
                  /\ wk'[s].pc \in {"finally", EndingWithoutFinally(wk[s])}
                  /\ wk'[s].crash = wk[s].crash
                  /\ wk'[s].exc = wk[s].exc]_vars
    /\ [][\A c \in Cleaners :
            (cl[c].pc = "upload" /\ cl'[c] # cl[c]) =>
                (cl'[c].pc = "chk" /\ cl'[c].fsErr = cl[c].fsErr)]_vars

\* The session was deleted while its worker ran: the cleanup removed the
\* upload, the worker found it gone, and its thread ended by the KeyError
\* of its handler.
C26_Witness ==
    \E s \in SessionIds :
        /\ wk[s].kind = "local"
        /\ wk[s].pc = "crashed"
        /\ wk[s].removal = "already gone"
        /\ s \notin uploads
        /\ s \notin Registered

\* Two windows of MaxWinLen samples, longer than any fade of the model,
\* were stitched.
TwoLongWindows ==
    /\ cf.pc = "returned"
    /\ Len(cf.parts) = 2
    /\ Len(cf.parts[1]) = MaxWinLen
    /\ Len(cf.parts[2]) = MaxWinLen

\* The number of samples the two windows share in the result.
ObservedFade == 2 * MaxWinLen - Len(cf.out)

\* C27 as stated: the fade length is round(sample_rate * fade_ms / 1000),
\* which is 2 at sample_rate 150 and 1 at sample_rate 100 with fade_ms 10.
C27_FadeLenRounded ==
    TwoLongWindows => ObservedFade = Round(cf.rate * FADE_MS, 1000)

\* C27 as amended: the fade length is sample_rate * fade_ms / 1000 cut to
\* the integer below, and 1 when that is 0: it is 1 at sample_rate 150 and
\* at sample_rate 100 with fade_ms 10, and 1 at sample_rate 50.
C27_FadeLenTruncated ==
    TwoLongWindows =>
        /\ ObservedFade >= 1
        /\ cf.rate * FADE_MS >= 1000 =>
              /\ ObservedFade * 1000 <= cf.rate * FADE_MS
              /\ cf.rate * FADE_MS < (ObservedFade + 1) * 1000
        /\ cf.rate * FADE_MS < 1000 => ObservedFade = 1
        /\ cf.rate \in {50, 100, 150} => ObservedFade = 1

C27_Witness ==
    /\ TwoLongWindows
    /\ cf.rate = 150
    /\ ObservedFade = 1

\* The last join of a call: the accumulator is the stitching of all windows
\* but the last.
LastJoin == cf.pc = "returned" /\ Len(cf.parts) >= 2

AccLen ==
    Len(crossfade_concat(SubSeq(cf.parts, 1, Len(cf.parts) - 1), cf.rate,
                         FADE_MS))

NewLen == Len(cf.parts[Len(cf.parts)])

FadeLen == fade_len_of(cf.rate, FADE_MS)

\* C28 as stated: a join concatenates without a fade only when the
\* accumulator or the new window is strictly shorter than fade_len, and
\* overlaps fade_len samples in every other case, also when one of them is
\* exactly fade_len samples long.
C28_ConcatOnlyWhenShorter ==
    LastJoin =>
        IF AccLen < FadeLen \/ NewLen < FadeLen
        THEN Len(cf.out) = AccLen + NewLen
        ELSE Len(cf.out) = AccLen + NewLen - FadeLen

\* C28 as amended: a join concatenates without a fade when the accumulator
\* or the new window is at most fade_len samples long, and overlaps
\* fade_len samples, adding len(new) - fade_len samples, only when both are
\* strictly longer than fade_len.
C28_ConcatWhenNotLonger ==
    LastJoin =>
        IF AccLen <= FadeLen \/ NewLen <= FadeLen
        THEN Len(cf.out) = AccLen + NewLen
        ELSE Len(cf.out) = AccLen + NewLen - FadeLen

\* A new window of exactly fade_len samples is appended whole.
C28_Witness ==
    /\ LastJoin
    /\ Len(cf.parts) = 2
    /\ FadeLen = 2
    /\ AccLen = 4
    /\ NewLen = 2
    /\ Len(cf.out) = 6

\* Two windows that are both longer than the fade were stitched: they
\* overlap.
Overlapped ==
    /\ cf.pc = "returned"
    /\ Len(cf.parts) = 2
    /\ Len(cf.parts[1]) > FadeLen
    /\ Len(cf.parts[2]) > FadeLen

\* What a sample becomes when it goes through the stitcher alone, at gain 1:
\* x / 32768 * 32767, cut towards zero.
Alone(x) == IF x >= 0 THEN (x * 32767) \div 32768
            ELSE -(((-x) * 32767) \div 32768)

\* C29: in an overlap the first sample is the accumulator's alone (outgoing
\* gain 1, incoming gain 0), the last one, when the fade is 2 samples or
\* more, is the new window's alone (outgoing gain 0, incoming gain 1), and
\* the two gains add up to 1 at every sample, the gains being those of
\* evenly spaced t from 0 to 1: the incoming gains are the outgoing ones in
\* reverse, and the outgoing ones never rise. With a fade of one sample the
\* overlapped sample is the accumulator's and the first sample of the new
\* window is in no sample of the result.
C29_OverlapGains ==
    /\ Overlapped =>
          LET A == cf.parts[1]
              B == cf.parts[2]
              keep == Len(A) - FadeLen
          IN  /\ cf.out[keep + 1] = Alone(A[keep + 1])
              /\ FadeLen >= 2 => cf.out[keep + FadeLen] = Alone(B[FadeLen])
              /\ FadeLen = 1 =>
                    /\ Len(cf.out) = Len(A) + Len(B) - 1
                    /\ \A k \in 2..Len(B) :
                          cf.out[Len(A) + k - 1] = Alone(B[k])
              /\ cf.parts = LevelPair =>
                    \A k \in 1..Len(cf.out) : cf.out[k] = Alone(16384)
    /\ cf.pc = "returned" =>
          \A k \in 1..FadeLen :
              /\ fade_out(FadeLen, k) + fade_in(FadeLen, k) = GainDen
              /\ fade_in(FadeLen, k) = fade_out(FadeLen, FadeLen + 1 - k)
                    \/ FadeLen = 1
              /\ k > 1 => fade_out(FadeLen, k) <= fade_out(FadeLen, k - 1)

\* A fade of three samples between two windows at half of full scale.
C29_Witness ==
    /\ Overlapped
    /\ cf.parts = LevelPair
    /\ FadeLen = 3
    /\ Len(cf.out) = 2 * MaxWinLen - 3
    /\ cf.out[MaxWinLen - 1] = 16383

\* int(start_s * sr), the first sample of the requested window.
RequestedFirst == TruncDiv(pv.start_s * pv.sr, DurDen)

\* The requested window [first, first + count) cut to the track [0, length).
InterLo == Max(0, RequestedFirst)

InterHi == Min(Len(pv.audio), RequestedFirst + RequestedCount)

\* The samples of the track a result holds: known when ffmpeg was not run.
ExtractIs(lo, hi) ==
    /\ pv.out.format = "WAV"
    /\ pv.out.frames = Max(0, hi - lo)
    /\ ~pv.toolCalled => pv.out.data = SubSeq(pv.audio, lo + 1, hi)

\* C30 as stated: the preview is cut from exactly the samples that the
\* requested window and the track have in common, for every start and
\* duration, a negative start and a window past the end included, and is the
\* encoding of no samples when they have none in common.
C30_ExtractsIntersection ==
    PitchReturned => ExtractIs(InterLo, InterHi)

\* C30 as amended: the preview is cut from the samples n0 to n1, where n0 is
\* the start of the window moved up to 0 and n1 is n0 plus the requested
\* count, moved down to the track's length. For a start that is not
\* negative these are the samples the window and the track have in common;
\* for a negative start the whole requested count is taken from sample 0.
\* When n1 is not above n0 the result is the encoding of no samples, and a
\* result is an encoding in every case.
C30_ExtractsClampedRange ==
    PitchReturned =>
        LET lo == Max(0, RequestedFirst)
            hi == Min(Len(pv.audio), lo + RequestedCount)
        IN  /\ ExtractIs(lo, hi)
            /\ RequestedFirst >= 0 => ExtractIs(InterLo, InterHi)
            /\ RequestedFirst < 0 =>
                  pv.out.frames = Min(Len(pv.audio), RequestedCount)
            /\ hi <= lo => pv.out = WavBytes(<<>>, pv.sr)

\* Half a second before the start of the track, at two samples a second:
\* the window reaches one sample into the track and two are returned.
C30_Witness ==
    /\ pv.pc = "returned"
    /\ pv.start_s = -1
    /\ pv.sr = 2
    /\ pv.dur_s = MaxDur
    /\ RequestedFirst = -1
    /\ ~pv.toolCalled
    /\ Len(pv.audio) > RequestedCount
    /\ pv.out.frames = RequestedCount
    /\ pv.out.data = SubSeq(pv.audio, 1, RequestedCount)

(***************************************************************************)
(* C31: the source get-pitch-preview selects.                              *)
(***************************************************************************)
\* The stems the handler takes for a backing track.
InstrumentalLike == {"instrumental", "other", "drums", "bass", "accompaniment"}

\* The continuous artifacts of instrumental-like stems in the folder of s.
InstrumentalFull(s) ==
    {n \in Stems \cap InstrumentalLike : dirs[s] /\ FullFile(n) \in files[s]}

\* The stems of s with at least one ready chunk.
StemsWithReady(s) == {n \in DOMAIN Ready(s) : Ready(s)[n] # {}}

\* Every ready chunk of s has its artifact in storage.
ReadyInStorage(s) ==
    /\ dirs[s]
    /\ \A p \in ReadyPairs(s) : ChunkFile(p[1], p[2]) \in files[s]

\* floor(start / chunk_duration)
StartWindow(start_s) ==
    CHOOSE k \in -1..(MaxChunks + 1) :
        k * CHUNK_DURATION <= start_s /\ start_s < (k + 1) * CHUNK_DURATION

WritesChunk(s) == W(s).pc = "write" /\ W(s)'.pc = "ready_add"

\* The worker of s persists a continuous artifact in this step.
WritesFull(s) == W(s).pc = "stitch" /\ Len(W(s)'.stitched) > Len(W(s).stitched)

\* The step leaves every file of the folder of s in place and adds one.
AddsOneFile(s) ==
    /\ files[s] \subseteq files'[s]
    /\ Cardinality(files'[s]) = Cardinality(files[s]) + 1

\* The files of s that two of the chunks or stems written so far share.
SharedNames(s) ==
    LET w == W(s)
        chunkPairs == {p \in (0..MaxChunks) \X Stems :
                        /\ p[1] + 1 \in DOMAIN w.outs
                        /\ p[2] \in w.outs[p[1] + 1]}
        stitchedStems == {w.stitched[k].stem : k \in DOMAIN w.stitched}
    IN  {p \in chunkPairs :
            \/ \E q \in chunkPairs :
                    q # p /\ ChunkFile(q[1], q[2]) = ChunkFile(p[1], p[2])
            \/ \E n \in stitchedStems : FullFile(n) = ChunkFile(p[1], p[2])}

\* C32: every write of a chunk artifact, and every write of a continuous
\* artifact at completion, creates a file of a name the folder does not
\* hold and leaves the files it holds in place: no artifact is written
\* twice or replaced; the names chunk_<index>_<stem> of distinct (index,
\* stem) pairs differ from each other and from every name <stem>.
C32_ChunkWrittenOnce ==
    [][\A s \in PipelineIds :
        /\ (WritesChunk(s) \/ WritesFull(s)) => AddsOneFile(s)
        /\ SharedNames(s) = {}
      ]_vars

\* Both chunks of a stem and its continuous artifact are in the folder.
C32_Witness ==
    \E s \in Registered : \E n \in Stems :
        /\ W(s).pc = "ended"
        /\ SESSIONS[s].done
        /\ Cardinality(files[s]) >= 3
        /\ \E k \in DOMAIN W(s).stitched :
                /\ W(s).stitched[k].stem = n
                /\ W(s).stitched[k].parts = <<0, 1>>

(***************************************************************************)
(* C33: readiness follows discovery and persistence.                       *)
(***************************************************************************)
\* No cleanup of s has removed anything of its folder: the folder exists
\* and no call of cleanup_session_files for s is past its first removal.
StorageKept(s) ==
    /\ dirs[s]
    /\ \A c \in Cleaners :
            cl[c].sid = s => cl[c].pc \in {"idle", "rmtree"}

\* C33: in every state, for a registered session whose storage has not
\* been removed, every stem with a readiness entry is a discovered stem
\* and every index of a readiness set has its chunk artifact in storage:
\* the artifact was persisted before the index was added.
C33_ReadyMeansPersisted ==
    \A s \in Registered :
        StorageKept(s) =>
            /\ DOMAIN Ready(s) \subseteq SESSIONS[s].stems
            /\ \A stem \in DOMAIN Ready(s) : \A i \in Ready(s)[stem] :
                    ChunkFile(i, stem) \in files[s]

\* The worker is between two chunks: chunk 0 is ready and in storage and
\* chunk 1 is to be separated.
C33_Witness ==
    \E s \in Registered :
        /\ StorageKept(s)
        /\ W(s).pc = "sep" /\ W(s).i = 1
        /\ ReadyPairs(s) # {}
        /\ \A p \in ReadyPairs(s) : ChunkFile(p[1], p[2]) \in files[s]

(***************************************************************************)
(* C34: the readiness sets of a local session.                             *)
(***************************************************************************)
\* The separation collaborator returned the same stem names for every
\* chunk the worker of s handed it so far.
SameStemsEveryChunk(s) ==
    \A j, k \in DOMAIN W(s).outs : W(s).outs[j] = W(s).outs[k]

\* S is {0, ..., m} for some m >= 0.
IsPrefix(S) == S # {} /\ S = 0..(Cardinality(S) - 1)

\* C34: for a registered local session, in every state every index of
\* every readiness set is less than total_chunks (the field get-status
\* reports), and while the collaborator has returned the same stem names
\* for every chunk, every readiness set is {0, ..., m} for some m.
C34_ReadyBelowTotal ==
    \A s \in Registered :
        SESSIONS[s].kind = "local" =>
            /\ \A stem \in DOMAIN Ready(s) : \A i \in Ready(s)[stem] :
                    i < SESSIONS[s].total_chunks
            /\ SameStemsEveryChunk(s) =>
                    \A stem \in DOMAIN Ready(s) : IsPrefix(Ready(s)[stem])

\* A local session of two chunks, both ready for both stems.
C34_Witness ==
    \E s \in Registered :
        /\ SESSIONS[s].kind = "local"
        /\ SESSIONS[s].total_chunks = 2
        /\ SameStemsEveryChunk(s)
        /\ DOMAIN Ready(s) = Stems
        /\ \A stem \in Stems : Ready(s)[stem] = {0, 1}

(***************************************************************************)
(* C35: a worker writes its own session only.                              *)
(***************************************************************************)
\* The step is one of the worker thread of session a.
WorkerActs(a) == wk[a].pc # "none" /\ wk'[a] # wk[a]

\* The step leaves the record, the folder, the artifacts, the uploaded
\* file and the worker of session b as they are.
LeavesAlone(b) ==
    /\ (b \in Registered) = (b \in Registered')
    /\ b \in Registered => SESSIONS'[b] = SESSIONS[b]
    /\ dirs'[b] = dirs[b]
    /\ files'[b] = files[b]
    /\ (b \in uploads) = (b \in uploads')
    /\ wk'[b] = wk[b]

\* C35: a step of the worker of session A changes nothing of any other
\* session B: not its registry record (readiness, stems, done, error,
\* total_chunks), not its folder or artifacts, not its uploaded file.
C35_WorkerWritesOwnSession ==
    [][\A a \in SessionIds :
        WorkerActs(a) => \A b \in SessionIds \ {a} : LeavesAlone(b)
      ]_vars

\* Two workers run at once: the one of an upload has a chunk ready and is
\* stitching, the one of a stream is about to persist a chunk.
C35_Witness ==
    \E a, b \in Registered :
        /\ a # b
        /\ SESSIONS[a].kind = "local" /\ SESSIONS[b].kind = "remote"
        /\ W(a).pc = "stitch" /\ ReadyPairs(a) # {}
        /\ W(b).pc = "write" /\ SESSIONS[b].stems # {}

(***************************************************************************)
(* C36: the sweep against concurrent changes of the registry.              *)
(***************************************************************************)
\* The sessions that were registered and expired when the sweep began.
ExpiredAtStart == {s \in sw.atStart : Born(s) < sw.cutoff}

\* C36: whenever a sweep has ended, whatever requests created or deleted
\* sessions while it ran, every session that was expired when it began is
\* unregistered: no change of the registry makes cleanup_old_sessions stop
\* before it removed them.
C36_SweepSurvivesChanges ==
    sw.pc \in {"finished", "aborted"} => ExpiredAtStart \cap Registered = {}

(***************************************************************************)
(* C37: the model is loaded once.                                          *)
(***************************************************************************)
\* The threads for which load_model_safe returned.
Returned == {t \in Loaders : ml.at[t] = "returned"}

\* C37: however many workers start at once, at most one call of
\* load_model returns a model; a thread between the test `model is None`
\* and its return holds model_lock, so no two threads are there together;
\* every caller that returns gets the one instance; and as long as no
\* load has succeeded (each one raised) `model` is unset, so the next
\* caller to take the lock loads again.
C37_ModelLoadedOnce ==
    ml.pc = "run" =>
        /\ ml.loaded <= 1
        /\ \A t \in Loaders :
                ml.at[t] \in {"check", "load", "return"} => ml.model_lock = t
        /\ \A t \in Returned : ml.got[t] # 0 /\ ml.got[t] = ml.model
        /\ \A t, u \in Returned : ml.got[t] = ml.got[u]
        /\ ml.loaded = 0 => ml.model = 0
        /\ \A t \in Loaders : ml.at[t] = "return" => ml.model # 0
        /\ \A t \in Loaders : ml.at[t] = "load" => ml.model = 0

\* The load of the first worker raised, the second loaded the model on
\* its retry, and the second and a third worker got that instance.
C37_Witness ==
    /\ ml.pc = "run"
    /\ ml.loads = 2 /\ ml.loaded = 1
    /\ \E t \in Loaders : ml.at[t] = "raised"
    /\ Cardinality(Returned) = 2
    /\ \A t \in Returned : ml.got[t] = 2

(***************************************************************************)
(* C38: the pitch-shift tool fails.                                        *)
(***************************************************************************)
\* C38: when ffmpeg is run and fails (it exits non-zero, writes nothing,
\* or anything in _ffmpeg_pitch_shift raises), pitch_shift_preview returns
\* a WAV payload, not an error: the encoding of the samples n0 to n1 of
\* the track as they are, which is what a request with semitones = 0 for
\* the same track, start and duration got.
C38_ToolFailureUnshifted ==
    /\ (pv.pc \in {"returned", "again"} /\ pv.toolFailed) =>
          /\ pv.out.format = "WAV"
          /\ pv.out =
                WavBytes(SubSeq(pv.audio, n0_of(pv.start_s, pv.sr) + 1,
                                n1_of(pv.audio, pv.sr, pv.start_s, pv.dur_s)),
                         pv.sr)
    /\ (pv.pc = "again" /\ pv.toolFailed /\ pv.semitones1 = 0) =>
          pv.out = pv.first

\* A request with semitones = 0, then one for a shift of a semitone during
\* which ffmpeg failed: both got the same two or more samples.
C38_Witness ==
    /\ pv.pc = "again"
    /\ pv.semitones1 = 0
    /\ pv.semitones = SemiDen
    /\ pv.toolFailed
    /\ pv.out = pv.first
    /\ pv.out.frames >= 2
    /\ pv.out.data[1] # 0

(***************************************************************************)
(* C39: the length and the order of a stitching of several windows.        *)
(***************************************************************************)
\* Two or more windows, all longer than the fade, were stitched.
AllLongWindows ==
    /\ cf.pc = "returned"
    /\ Len(cf.parts) >= 2
    /\ \A i \in DOMAIN cf.parts : Len(cf.parts[i]) > FadeLen

\* sum(len(window_j)) over the first n windows.
RECURSIVE SumLen(_)
SumLen(n) == IF n = 0 THEN 0 ELSE SumLen(n - 1) + Len(cf.parts[n])

\* Where window i begins in the result, every join overlapping FadeLen
\* samples: the result's sample PlaceOf(i) + k is the window's sample k.
PlaceOf(i) == SumLen(i - 1) - (i - 1) * FadeLen

\* The samples of window i that are in no overlap region: not among its
\* first FadeLen unless it is the first window, not among its last FadeLen
\* unless it is the last.
OutsideOverlap(i) ==
    {k \in 1..Len(cf.parts[i]) :
        /\ i > 1 => k > FadeLen
        /\ i < Len(cf.parts) => k <= Len(cf.parts[i]) - FadeLen}

\* C39: for N >= 2 windows that are all longer than fade_len the result
\* has sum(len(window_i)) - (N - 1) * fade_len samples, and every sample
\* of every window that is in no overlap region is in the result once, at
\* the place its window and its index give it (window after window, in
\* input order), as the value the stitcher gives a sample at gain 1.
C39_StitchedOrder ==
    AllLongWindows =>
        /\ Len(cf.out) = SumLen(Len(cf.parts)) - (Len(cf.parts) - 1) * FadeLen
        /\ \A i \in DOMAIN cf.parts : \A k \in OutsideOverlap(i) :
                /\ PlaceOf(i) + k \in 1..Len(cf.out)
                /\ cf.out[PlaceOf(i) + k] = Alone(cf.parts[i][k])
        /\ \A i, j \in DOMAIN cf.parts :
                \A k \in OutsideOverlap(i), l \in OutsideOverlap(j) :
                    (i < j \/ (i = j /\ k < l))
                        => PlaceOf(i) + k < PlaceOf(j) + l

\* Three windows of four samples with a fade of one sample: ten samples,
\* and the middle window has samples in no overlap.
C39_Witness ==
    /\ AllLongWindows
    /\ Len(cf.parts) = 3
    /\ FadeLen = 1
    /\ \A i \in 1..3 : Len(cf.parts[i]) = MaxWinLen
    /\ Len(cf.out) = 3 * MaxWinLen - 2
    /\ OutsideOverlap(2) # {}
    /\ cf.parts[2] = Rising(MaxWinLen, INT16_MIN)
    /\ cf.out[PlaceOf(2) + 3] = Alone(INT16_MIN + 2)
    /\ cf.out[PlaceOf(2) + 3] = INT16_MIN + 3

=============================================================================
